---- MODULE Spec2Model ----
(***************************************************************************)
(* Model of the multi-cluster core of kubestellar-mcp:                     *)
(*   - multicluster.ClientManager (client cache, RWMutex)                  *)
(*   - multicluster.Executor (Execute / executeSingle / executeAll /       *)
(*     ExecuteOnSelected) and server.Server.executeAll                     *)
(*   - gitops.Syncer and gitops.DriftDetector against one cluster's API    *)
(***************************************************************************)
EXTENDS Integers, Sequences, FiniteSets, TLC

(***************************************************************************)
(* Bounds                                                                  *)
(***************************************************************************)
\* number of distinct cluster (context) names
NumClusters == 2
\* longest list of target clusters of one fan-out call
MaxTargets == 2
\* longest manifest set
MaxManifests == 2
\* number of Sync / DetectDrift calls in a row
MaxRuns == 2
\* number of API calls that may fail
MaxFaults == 1
\* documents in one stream
MaxDocuments == 3
\* Sync calls running at the same time against one cluster
NumSyncers == 2
\* goroutines calling the ClientManager directly, and the calls they make in all
NumCallers == 2
MaxCalls == 2

ClusterNames == 1..NumClusters
\* the empty cluster name "" of Execute(ctx, "", fn)
EmptyName == 0

\* thread 0 is the calling goroutine, 1..MaxTargets are the per-cluster workers
Caller == 0
Workers == 1..MaxTargets
Threads == {Caller} \cup Workers
\* a mutex that nobody holds
NoOwner == -1
\* map lookup miss in ClientManager.clients / ClientManager.configs
NoClient == 0
NoConfig == 0
\* ClusterResult.Result == nil, ClusterResult.Error == ""
NoResult == 0
NoError == ""

VARIABLES
    \* ---- Executor / ClientManager ----
    cpc,        \* position of the calling goroutine
    mode,       \* "single" | "all" | "selected" | "serverAll"
    targets,    \* the cluster names the call fans out over
    loopVar,    \* the range variable of the launching loop
    spawned,    \* number of workers launched so far
    wg,         \* sync.WaitGroup counter
    wpc,        \* position of each thread inside its closure
    wname,      \* the closure parameter clusterName / name of each worker
    wclient,    \* client a thread obtained from GetClient
    wout,       \* what a thread is about to record: [Result, Error]
    wtmp,       \* slice header read by append
    results,    \* the shared results slice
    mu,         \* holder of the result mutex
    rw,         \* holder of ClientManager.mu (write side)
    clients,    \* ClientManager.clients
    configs,    \* ClientManager.configs
    built,      \* number of clients constructed per name (history)
    ret,        \* what the call returned: [results, err]
    crashed,    \* the process died from an unrecovered panic
    hgc,        \* history: how GetClient ended for each thread
    hfn,        \* history: how fn ended for each thread
    \* ---- Syncer / DriftDetector against one cluster ----
    spc,        \* position of the sync / drift caller
    manifests,  \* the manifest set read from the source
    opts,       \* SyncOptions of the request (Namespace, Include, Exclude)
    live,       \* the cluster's objects
    idx,        \* index of the manifest Sync's loop is at
    cur,        \* the run in progress
    runs,       \* history: the completed Sync / DetectDrift calls
    faults,     \* API calls that failed so far
    \* ---- handleSyncFromGit: one Sync worker per target cluster ----
    fpc,        \* position of the handler
    fmanifests, \* the parsed manifest set handed to every worker
    raw,        \* Manifest.Raw["metadata"]["namespace"] of each manifest (shared maps)
    fopts,      \* SyncOptions of the request, DryRun included
    ftargets,   \* targetClusters
    kpc,        \* position of each worker
    kidx,       \* index of the manifest each worker's Sync loop is at
    klive,      \* the objects of each worker's cluster
    ksummary,   \* the summary each worker is building
    summaries,  \* the shared summaries slice
    smu,        \* holder of the handler's mutex
    swg,        \* the handler's WaitGroup counter
    \* ---- Selector.FindClustersForWorkload ----
    qpc,        \* position of the call
    qreq,       \* the WorkloadRequirements
    qcaps,      \* what GetClusterCapabilities returned
    qidx,       \* index of the capability the loop is at
    matchingClusters,  \* the clusters found so far
    qret,       \* what the call returned: [clusters, err]
    \* ---- calls of the manifest functions (GetKey, compareObjects, ReadFromReader) ----
    pcall,      \* the function that was called
    pin,        \* its arguments
    pout,       \* what it returned
    \* ---- concurrent syncResource calls for one manifest on one cluster ----
    rpc,        \* "idle" until the calls are under way
    rmanifest,  \* the manifest all of them sync
    rnamespace, \* the namespace Sync passes to syncResource
    rdry,       \* dryRun of each call
    rlive,      \* the cluster's objects
    rstep,      \* the API call each syncResource is about to make
    rexisting,  \* the object each call fetched
    rresult,    \* what each call returned: [action, err]
    \* ---- ClientManager.GetClient / GetConfig called by several goroutines ----
    mpc,        \* position of each caller
    mop,        \* the method each caller is in: "GetClient" | "GetConfig"
    mname,      \* its clusterName argument
    mbuilt,     \* the client and config a caller constructed, not yet stored
    mret,       \* what the caller's last call returned: [op, name, value, err]
    cmClients,  \* ClientManager.clients
    cmConfigs,  \* ClientManager.configs
    cmMu,       \* holder of ClientManager.mu (write side)
    cmBuilt,    \* history: successful constructions per name
    cmCalls     \* history: calls made so far

execVars == <<cpc, mode, targets, loopVar, spawned, wg, wpc, wname, wclient,
              wout, wtmp, results, mu, rw, clients, configs, built, ret, crashed,
              hgc, hfn>>

syncVars == <<spc, manifests, opts, live, idx, cur, runs, faults>>

fanVars == <<fpc, fmanifests, raw, fopts, ftargets, kpc, kidx, klive, ksummary,
             summaries, smu, swg>>

selVars == <<qpc, qreq, qcaps, qidx, matchingClusters, qret>>

callVars == <<pcall, pin, pout>>

raceVars == <<rpc, rmanifest, rnamespace, rdry, rlive, rstep, rexisting, rresult>>

cacheVars == <<mpc, mop, mname, mbuilt, mret, cmClients, cmConfigs, cmMu, cmBuilt,
               cmCalls>>

\* what the operations of one component leave alone
notExecVars == <<syncVars, fanVars, selVars, callVars, raceVars, cacheVars>>
notSyncVars == <<execVars, fanVars, selVars, callVars, raceVars, cacheVars>>
notFanVars == <<execVars, syncVars, selVars, callVars, raceVars, cacheVars>>
notSelVars == <<execVars, syncVars, fanVars, callVars, raceVars, cacheVars>>
notCallVars == <<execVars, syncVars, fanVars, selVars, raceVars, cacheVars>>
notRaceVars == <<execVars, syncVars, fanVars, selVars, callVars, cacheVars>>
notCacheVars == <<execVars, syncVars, fanVars, selVars, callVars, raceVars>>

vars == <<execVars, syncVars, fanVars, selVars, callVars, raceVars, cacheVars>>

Modes == {"single", "all", "selected", "serverAll"}

\* sequences over S of length 0..n
RECURSIVE SeqsUpTo(_, _)
SeqsUpTo(S, n) ==
    IF n = 0 THEN {<<>>}
    ELSE LET shorter == SeqsUpTo(S, n - 1)
         IN shorter \cup {Append(s, x) : s \in {q \in shorter : Len(q) = n - 1}, x \in S}

Injective(s) == \A i, j \in 1..Len(s) : s[i] = s[j] => i = j

ClusterResult(cluster, result, error) ==
    [Cluster |-> cluster, Result |-> result, Error |-> error]

\* the value the operation fn computes on a cluster; it depends on the
\* cluster so that a result filed under another name is visible
OpValue(name) == 10 + name

NoRet == [results |-> <<>>, err |-> "unset"]

ExecInit ==
    /\ cpc = "idle"
    /\ mode = "single"
    /\ targets = <<>>
    /\ loopVar = EmptyName
    /\ spawned = 0
    /\ wg = 0
    /\ wpc = [t \in Threads |-> "idle"]
    /\ wname = [t \in Threads |-> EmptyName]
    /\ wclient = [t \in Threads |-> NoClient]
    /\ wout = [t \in Threads |-> ClusterResult(EmptyName, NoResult, NoError)]
    /\ wtmp = [t \in Threads |-> <<>>]
    /\ results = <<>>
    /\ mu = NoOwner
    /\ rw = NoOwner
    /\ clients = [n \in ClusterNames |-> NoClient]
    /\ configs = [n \in ClusterNames |-> NoConfig]
    /\ built = [n \in ClusterNames |-> 0]
    /\ ret = NoRet
    /\ crashed = FALSE
    /\ hgc = [t \in Threads |-> "none"]
    /\ hfn = [t \in Threads |-> "none"]

\* the one cluster the Syncer and the DriftDetector work against
SyncCluster == 1

EmptySummary(clusterName) ==
    [Cluster |-> clusterName, Created |-> 0, Updated |-> 0, Unchanged |-> 0,
     Failed |-> 0, Skipped |-> 0, Results |-> <<>>]

NoRun ==
    [op |-> "none", dryRun |-> FALSE, summary |-> EmptySummary(SyncCluster),
     errs |-> <<>>, drifts |-> <<>>, pending |-> {}, getFaults |-> 0, faulted |-> {},
     liveBefore |-> <<>>, liveAfter |-> <<>>, err |-> "unset"]

SyncInit ==
    /\ spc = "init"
    /\ manifests = <<>>
    /\ opts = [Namespace |-> "", Include |-> <<>>, Exclude |-> <<>>]
    /\ live = <<>>
    /\ idx = 0
    /\ cur = NoRun
    /\ runs = <<>>
    /\ faults = 0

FanInit ==
    /\ fpc = "idle"
    /\ fmanifests = <<>>
    /\ raw = <<>>
    /\ fopts = [DryRun |-> FALSE, Namespace |-> "", Include |-> <<>>, Exclude |-> <<>>]
    /\ ftargets = <<>>
    /\ kpc = [w \in Workers |-> "idle"]
    /\ kidx = [w \in Workers |-> 0]
    /\ klive = [w \in Workers |-> <<>>]
    /\ ksummary = [w \in Workers |-> EmptySummary(EmptyName)]
    /\ summaries = <<>>
    /\ smu = NoOwner
    /\ swg = 0

NoRequirements ==
    [MinCPU |-> <<>>, MinMemory |-> <<>>, GPUType |-> "", MinGPU |-> 0,
     NodeLabels |-> [k \in {} |-> ""]]

SelInit ==
    /\ qpc = "idle"
    /\ qreq = NoRequirements
    /\ qcaps = <<>>
    /\ qidx = 0
    /\ matchingClusters = <<>>
    /\ qret = [clusters |-> <<>>, err |-> "unset"]

CallInit ==
    /\ pcall = "none"
    /\ pin = <<>>
    /\ pout = <<>>

Syncers == 1..NumSyncers

NoOutcome == [action |-> "", err |-> "unset"]

RaceInit ==
    /\ rpc = "idle"
    /\ rmanifest = <<>>
    /\ rnamespace = ""
    /\ rdry = [r \in Syncers |-> FALSE]
    /\ rlive = <<>>
    /\ rstep = [r \in Syncers |-> "idle"]
    /\ rexisting = [r \in Syncers |-> [exists |-> FALSE]]
    /\ rresult = [r \in Syncers |-> NoOutcome]

Callers == 1..NumCallers

NoReturn == [op |-> "none", name |-> EmptyName, value |-> 0, err |-> "unset"]

\* NewClientManager: clients and configs are made empty
CacheInit ==
    /\ mpc = [c \in Callers |-> "idle"]
    /\ mop = [c \in Callers |-> "none"]
    /\ mname = [c \in Callers |-> EmptyName]
    /\ mbuilt = [c \in Callers |-> NoClient]
    /\ mret = [c \in Callers |-> NoReturn]
    /\ cmClients = [n \in ClusterNames |-> NoClient]
    /\ cmConfigs = [n \in ClusterNames |-> NoConfig]
    /\ cmMu = NoOwner
    /\ cmBuilt = [n \in ClusterNames |-> 0]
    /\ cmCalls = 0

Init ==
    ExecInit /\ SyncInit /\ FanInit /\ SelInit /\ CallInit /\ RaceInit /\ CacheInit

(***************************************************************************)
(* ClientManager.DiscoverClusters: the contexts of the kubeconfig whose    *)
(* cluster entry exists, in map-iteration order (unique names, any order)  *)
(***************************************************************************)
DiscoverClusters == {s \in SeqsUpTo(ClusterNames, MaxTargets) : Injective(s)}

\* Execute: a non-empty clusterName selects single-cluster mode
IsSingleMode(clusterName) == clusterName # EmptyName

StartFanOut(m, names) ==
    /\ mode' = m
    /\ targets' = names
    /\ cpc' = "loop"
    /\ UNCHANGED <<loopVar, spawned, wg, wpc, wname, wclient, wout, wtmp, results,
                   mu, rw, clients, configs, built, ret, crashed, hgc, hfn>>
    /\ UNCHANGED notExecVars

\* Executor.Execute(ctx, clusterName, fn)
Execute(clusterName) ==
    /\ cpc = "idle" /\ ~crashed
    /\ IF IsSingleMode(clusterName)
       THEN /\ mode' = "single"
            /\ targets' = <<clusterName>>
            /\ cpc' = "single"
            /\ wname' = [wname EXCEPT ![Caller] = clusterName]
            /\ wpc' = [wpc EXCEPT ![Caller] = "gcRead"]
            /\ UNCHANGED <<loopVar, spawned, wg, wclient, wout, wtmp, results,
                           mu, rw, clients, configs, built, ret, crashed, hgc, hfn>>
            /\ UNCHANGED notExecVars
       ELSE \E clusters \in DiscoverClusters : StartFanOut("all", clusters)

\* Executor.ExecuteOnSelected(ctx, clusterNames, fn)
ExecuteOnSelected(clusterNames) ==
    /\ cpc = "idle" /\ ~crashed
    /\ StartFanOut("selected", clusterNames)

\* Server.executeAll(ctx, fn): discovery, then the same fan-out; an empty
\* discovery is an error of the call
ServerExecuteAll ==
    /\ cpc = "idle" /\ ~crashed
    /\ \E clusters \in DiscoverClusters :
          IF Len(clusters) = 0
          THEN /\ mode' = "serverAll"
               /\ targets' = clusters
               /\ cpc' = "returned"
               /\ ret' = [results |-> <<>>, err |-> "no clusters found in kubeconfig"]
               /\ UNCHANGED <<loopVar, spawned, wg, wpc, wname, wclient, wout, wtmp,
                              results, mu, rw, clients, configs, built, crashed, hgc, hfn>>
          ELSE StartFanOut("serverAll", clusters)
    /\ UNCHANGED notExecVars

\* one iteration of the launching loop: wg.Add(1); go func(name){...}(cluster)
Launch ==
    /\ cpc = "loop" /\ ~crashed
    /\ spawned < Len(targets)
    /\ LET k == spawned + 1 IN
         /\ loopVar' = targets[k]
         /\ wg' = wg + 1
         /\ wname' = [wname EXCEPT ![k] = targets[k]]
         /\ wpc' = [wpc EXCEPT ![k] = "gcRead"]
         /\ spawned' = k
    /\ UNCHANGED <<cpc, mode, targets, wclient, wout, wtmp, results, mu, rw,
                   clients, configs, built, ret, crashed, hgc, hfn>>
    /\ UNCHANGED notExecVars

\* the cluster name a worker closure works with: its own parameter
WorkerNameCaptured(t) == IF t = Caller THEN wname[t] ELSE loopVar
WorkerName(t) == wname[t]

\* where a thread continues once it knows what to record
AfterOutcome(t) == IF t = Caller THEN "retSingle" ELSE "muLock"

(***************************************************************************)
(* ClientManager.GetClient                                                 *)
(***************************************************************************)
\* optimistic lookup under RLock
GcRead(t) ==
    /\ wpc[t] = "gcRead" /\ ~crashed
    /\ mode # "serverAll"
    /\ rw = NoOwner
    /\ IF clients[WorkerName(t)] # NoClient
       THEN /\ wclient' = [wclient EXCEPT ![t] = clients[WorkerName(t)]]
            /\ hgc' = [hgc EXCEPT ![t] = "ok"]
            /\ wpc' = [wpc EXCEPT ![t] = "fn"]
       ELSE /\ wpc' = [wpc EXCEPT ![t] = "gcLock"]
            /\ UNCHANGED <<wclient, hgc>>
    /\ UNCHANGED <<cpc, mode, targets, loopVar, spawned, wg, wname, wout, wtmp,
                   results, mu, rw, clients, configs, built, ret, crashed, hfn>>
    /\ UNCHANGED notExecVars

\* m.mu.Lock()
GcLock(t) ==
    /\ wpc[t] = "gcLock" /\ ~crashed
    /\ rw = NoOwner
    /\ rw' = t
    /\ wpc' = [wpc EXCEPT ![t] = "gcCheck"]
    /\ UNCHANGED <<cpc, mode, targets, loopVar, spawned, wg, wname, wclient, wout,
                   wtmp, results, mu, clients, configs, built, ret, crashed, hgc, hfn>>
    /\ UNCHANGED notExecVars

\* "defer m.mu.Unlock()": the write lock is given up on every return
UnlockForgotten(holder) == holder
DeferredUnlock(holder) == NoOwner

\* the second lookup, under the write lock
DoubleCheckSkipped(name) == FALSE
DoubleCheck(name) == clients[name] # NoClient

GcCheck(t) ==
    /\ wpc[t] = "gcCheck" /\ ~crashed
    /\ IF DoubleCheck(WorkerName(t))
       THEN /\ wclient' = [wclient EXCEPT ![t] = clients[WorkerName(t)]]
            /\ rw' = DeferredUnlock(t)
            /\ hgc' = [hgc EXCEPT ![t] = "ok"]
            /\ wpc' = [wpc EXCEPT ![t] = "fn"]
       ELSE /\ wpc' = [wpc EXCEPT ![t] = "gcBuild"]
            /\ UNCHANGED <<wclient, rw, hgc>>
    /\ UNCHANGED <<cpc, mode, targets, loopVar, spawned, wg, wname, wout, wtmp,
                   results, mu, clients, configs, built, ret, crashed, hfn>>
    /\ UNCHANGED notExecVars

\* outcomes of getConfigForContext followed by kubernetes.NewForConfig
BuildOutcomes == {"ok", "failed to get config", "failed to create client"}

\* the client constructed for a name: tagged with the name and a serial number
NewClient(name) == name * 10 + built[name] + 1

GcBuild(t) ==
    /\ wpc[t] = "gcBuild" /\ ~crashed
    /\ \E o \in BuildOutcomes :
         IF o = "ok"
         THEN /\ wclient' = [wclient EXCEPT ![t] = NewClient(WorkerName(t))]
              /\ built' = [built EXCEPT ![WorkerName(t)] = @ + 1]
              /\ wpc' = [wpc EXCEPT ![t] = "gcStoreClient"]
              /\ UNCHANGED <<wout, rw, hgc>>
         ELSE /\ wout' = [wout EXCEPT ![t] = ClusterResult(WorkerName(t), NoResult, o)]
              /\ rw' = DeferredUnlock(t)
              /\ hgc' = [hgc EXCEPT ![t] = o]
              /\ wpc' = [wpc EXCEPT ![t] = AfterOutcome(t)]
              /\ UNCHANGED <<wclient, built>>
    /\ UNCHANGED <<cpc, mode, targets, loopVar, spawned, wg, wname, wtmp, results,
                   mu, clients, configs, ret, crashed, hfn>>
    /\ UNCHANGED notExecVars

\* m.clients[clusterName] = client
GcStoreClient(t) ==
    /\ wpc[t] = "gcStoreClient" /\ ~crashed
    /\ clients' = [clients EXCEPT ![WorkerName(t)] = wclient[t]]
    /\ wpc' = [wpc EXCEPT ![t] = "gcStoreConfig"]
    /\ UNCHANGED <<cpc, mode, targets, loopVar, spawned, wg, wname, wclient, wout,
                   wtmp, results, mu, rw, configs, built, ret, crashed, hgc, hfn>>
    /\ UNCHANGED notExecVars

\* m.configs[clusterName] = config; return client, nil (deferred Unlock)
GcStoreConfig(t) ==
    /\ wpc[t] = "gcStoreConfig" /\ ~crashed
    /\ configs' = [configs EXCEPT ![WorkerName(t)] = wclient[t]]
    /\ rw' = DeferredUnlock(t)
    /\ hgc' = [hgc EXCEPT ![t] = "ok"]
    /\ wpc' = [wpc EXCEPT ![t] = "fn"]
    /\ UNCHANGED <<cpc, mode, targets, loopVar, spawned, wg, wname, wclient, wout,
                   wtmp, results, mu, clients, built, ret, crashed, hfn>>
    /\ UNCHANGED notExecVars

\* a client Server.getClientForCluster built; it is not kept anywhere
ServerClient(name) == name * 10

\* Server.getClientForCluster: builds a client on every call, no cache
GetClientForCluster(t) ==
    /\ wpc[t] = "gcRead" /\ ~crashed
    /\ mode = "serverAll"
    /\ \E o \in BuildOutcomes :
         /\ hgc' = [hgc EXCEPT ![t] = o]
         /\ IF o = "ok"
            THEN /\ wclient' = [wclient EXCEPT ![t] = ServerClient(WorkerName(t))]
                 /\ wpc' = [wpc EXCEPT ![t] = "fn"]
                 /\ UNCHANGED wout
            ELSE /\ wout' = [wout EXCEPT ![t] = ClusterResult(WorkerName(t), NoResult, o)]
                 /\ wpc' = [wpc EXCEPT ![t] = "muLock"]
                 /\ UNCHANGED wclient
    /\ UNCHANGED <<cpc, mode, targets, loopVar, spawned, wg, wname, wtmp, results,
                   mu, rw, clients, configs, built, ret, crashed, hfn>>
    /\ UNCHANGED notExecVars

(***************************************************************************)
(* the operation fn(ctx, client, clusterName)                              *)
(***************************************************************************)
\* it returns a value, returns an error, fails on the context deadline, or panics
FnOutcomes == {"ok", "operation failed", "context deadline exceeded", "panic"}

Fn(t) ==
    /\ wpc[t] = "fn" /\ ~crashed
    /\ \E o \in FnOutcomes :
       /\ hfn' = [hfn EXCEPT ![t] = o]
       /\ CASE o = "ok" ->
                /\ wout' = [wout EXCEPT ![t] =
                              ClusterResult(WorkerName(t), OpValue(WorkerName(t)), NoError)]
                /\ wpc' = [wpc EXCEPT ![t] = AfterOutcome(t)]
                /\ UNCHANGED crashed
           [] o = "panic" ->
                \* no recover() anywhere on the goroutine's stack
                /\ crashed' = TRUE
                /\ wpc' = [wpc EXCEPT ![t] = "panicked"]
                /\ UNCHANGED wout
           [] OTHER ->
                /\ wout' = [wout EXCEPT ![t] = ClusterResult(WorkerName(t), NoResult, o)]
                /\ wpc' = [wpc EXCEPT ![t] = AfterOutcome(t)]
                /\ UNCHANGED crashed
    /\ UNCHANGED <<cpc, mode, targets, loopVar, spawned, wg, wname, wclient, wtmp,
                   results, mu, rw, clients, configs, built, ret, hgc>>
    /\ UNCHANGED notExecVars

(***************************************************************************)
(* recording the outcome                                                   *)
(***************************************************************************)
\* mu.Lock() can be taken
MuFreeUnguarded == TRUE
MuFree == mu = NoOwner

MuLock(t) ==
    /\ wpc[t] = "muLock" /\ ~crashed
    /\ MuFree
    /\ mu' = t
    /\ wpc' = [wpc EXCEPT ![t] = "appendRead"]
    /\ UNCHANGED <<cpc, mode, targets, loopVar, spawned, wg, wname, wclient, wout,
                   wtmp, results, rw, clients, configs, built, ret, crashed, hgc, hfn>>
    /\ UNCHANGED notExecVars

\* append(results, r) reads the slice ...
AppendRead(t) ==
    /\ wpc[t] = "appendRead" /\ ~crashed
    /\ wtmp' = [wtmp EXCEPT ![t] = results]
    /\ wpc' = [wpc EXCEPT ![t] = "appendWrite"]
    /\ UNCHANGED <<cpc, mode, targets, loopVar, spawned, wg, wname, wclient, wout,
                   results, mu, rw, clients, configs, built, ret, crashed, hgc, hfn>>
    /\ UNCHANGED notExecVars

\* ... and stores the extended slice; mu.Unlock(); deferred wg.Done()
AppendWrite(t) ==
    /\ wpc[t] = "appendWrite" /\ ~crashed
    /\ results' = Append(wtmp[t], wout[t])
    /\ mu' = NoOwner
    /\ wg' = wg - 1
    /\ wpc' = [wpc EXCEPT ![t] = "done"]
    /\ UNCHANGED <<cpc, mode, targets, loopVar, spawned, wname, wclient, wout,
                   wtmp, rw, clients, configs, built, ret, crashed, hgc, hfn>>
    /\ UNCHANGED notExecVars

\* wg.Wait() lets the caller through
WaitNoBarrier == TRUE
WaitDone == wg = 0

\* wg.Wait(); return results, nil
WaitAndReturn ==
    /\ cpc = "loop" /\ ~crashed
    /\ spawned = Len(targets)
    /\ WaitDone
    /\ ret' = [results |-> results, err |-> "nil"]
    /\ cpc' = "returned"
    /\ UNCHANGED <<mode, targets, loopVar, spawned, wg, wpc, wname, wclient, wout,
                   wtmp, results, mu, rw, clients, configs, built, crashed, hgc, hfn>>
    /\ UNCHANGED notExecVars

\* what executeSingle returns for an outcome
SingleReturnPropagated(out) ==
    IF out.Error # NoError THEN [results |-> <<>>, err |-> out.Error]
    ELSE [results |-> <<out>>, err |-> "nil"]
SingleReturn(out) == [results |-> <<out>>, err |-> "nil"]

\* executeSingle: return []ClusterResult{{...}}, nil
ReturnSingle ==
    /\ cpc = "single" /\ ~crashed
    /\ wpc[Caller] = "retSingle"
    /\ ret' = SingleReturn(wout[Caller])
    /\ cpc' = "returned"
    /\ wpc' = [wpc EXCEPT ![Caller] = "done"]
    /\ UNCHANGED <<mode, targets, loopVar, spawned, wg, wname, wclient, wout, wtmp,
                   results, mu, rw, clients, configs, built, crashed, hgc, hfn>>
    /\ UNCHANGED notExecVars

ExecNext ==
    \/ \E n \in ClusterNames \cup {EmptyName} : Execute(n)
    \/ \E names \in SeqsUpTo(ClusterNames, MaxTargets) : ExecuteOnSelected(names)
    \/ ServerExecuteAll
    \/ Launch
    \/ \E t \in Threads : GcRead(t)
    \/ \E t \in Threads : GcLock(t)
    \/ \E t \in Threads : GcCheck(t)
    \/ \E t \in Threads : GcBuild(t)
    \/ \E t \in Threads : GcStoreClient(t)
    \/ \E t \in Threads : GcStoreConfig(t)
    \/ \E t \in Workers : GetClientForCluster(t)
    \/ \E t \in Threads : Fn(t)
    \/ \E t \in Workers : MuLock(t)
    \/ \E t \in Workers : AppendRead(t)
    \/ \E t \in Workers : AppendWrite(t)
    \/ WaitAndReturn
    \/ ReturnSingle

Next == ExecNext

Spec == Init /\ [][Next]_vars

\* the steps of one goroutine
ThreadStep(t) ==
    \/ GcRead(t) \/ GcLock(t) \/ GcCheck(t) \/ GcBuild(t) \/ GcStoreClient(t)
    \/ GcStoreConfig(t) \/ GetClientForCluster(t) \/ Fn(t)
    \/ MuLock(t) \/ AppendRead(t) \/ AppendWrite(t)

\* the Go scheduler: every goroutine that can run does run, the operation and
\* the handle construction come back
FairSpec ==
    /\ Spec
    /\ \A t \in Threads : WF_vars(ThreadStep(t))
    /\ WF_vars(Launch)
    /\ WF_vars(WaitAndReturn)
    /\ WF_vars(ReturnSingle)

(***************************************************************************)
(* Properties of the fan-out executor and the client cache                 *)
(***************************************************************************)
\* a fan-out call (all / subset mode) has returned its results
FanOutReturned == cpc = "returned" /\ mode # "single" /\ ret.err = "nil"

Occurrences(seq, x) == Cardinality({k \in 1..Len(seq) : seq[k] = x})
ResultNames(rs) == [k \in 1..Len(rs) |-> rs[k].Cluster]

\* C1: a fan-out call over N cluster names (duplicates allowed, or the
\* discovered clusters when Execute gets the empty name) returns exactly N
\* results, and every name occurs among the results' Cluster fields as often
\* as it was requested, whatever the interleaving of the workers.
C1_OneResultPerRequestedCluster ==
    FanOutReturned =>
        /\ Len(ret.results) = Len(targets)
        /\ \A n \in ClusterNames :
              Occurrences(ResultNames(ret.results), n) = Occurrences(targets, n)

C1_Witness ==
    /\ FanOutReturned /\ mode = "selected"
    /\ Len(targets) = 2 /\ targets[1] = targets[2]

\* the ClusterResult worker t has to contribute, from what happened to it
Expected(t) ==
    IF hgc[t] # "ok" THEN ClusterResult(targets[t], NoResult, hgc[t])
    ELSE IF hfn[t] = "ok" THEN ClusterResult(targets[t], OpValue(targets[t]), NoError)
    ELSE ClusterResult(targets[t], NoResult, hfn[t])

\* C2: when a fan-out call returns, the results are exactly the workers' own
\* outcomes: a cluster whose GetClient failed has a non-empty Error and no
\* Result, a cluster whose operation succeeded has that operation's value and
\* an empty Error, and nothing is recorded under another cluster's name.
C2_NoCrossContamination ==
    FanOutReturned =>
        /\ \A k \in 1..Len(ret.results) :
              Occurrences(ret.results, ret.results[k])
                 = Cardinality({t \in 1..Len(targets) : Expected(t) = ret.results[k]})
        /\ \A t \in 1..Len(targets) :
              /\ \E k \in 1..Len(ret.results) : ret.results[k] = Expected(t)
              /\ hgc[t] # "ok" => Expected(t).Error # NoError /\ Expected(t).Result = NoResult
              /\ (hgc[t] = "ok" /\ hfn[t] = "ok") =>
                    Expected(t).Error = NoError /\ Expected(t).Result = OpValue(targets[t])

C2_Witness ==
    /\ FanOutReturned /\ Len(targets) = 2 /\ targets[1] # targets[2]
    /\ \E t, u \in 1..2 : hgc[t] \notin {"ok", "none"} /\ hgc[u] = "ok" /\ hfn[u] = "ok"

\* C3: a fan-out call that has not returned yet is never stuck: whatever one
\* cluster's operation did (panic, error, timeout) the call can still proceed
\* towards returning the other clusters' results.
C3_FailureNeverBlocksCollection ==
    (cpc = "loop" /\ Len(targets) >= 2) => ENABLED ExecNext

\* C4: per cluster name at most one client is ever constructed by GetClient;
\* a GetClient that returned a client returned the cached one; a cached entry
\* is never removed or replaced.
C4_OneClientPerName ==
    /\ [](/\ \A n \in ClusterNames : built[n] <= 1
          /\ \A t \in Threads :
                (mode # "serverAll" /\ hgc[t] = "ok") => wclient[t] = clients[wname[t]])
    /\ [][\A n \in ClusterNames : clients[n] # NoClient => clients'[n] = clients[n]]_vars

C4_Witness ==
    /\ mode = "selected"
    /\ \E t, u \in Workers :
          /\ t # u /\ wname[t] = wname[u]
          /\ hgc[t] = "ok" /\ hgc[u] = "ok"
          /\ built[wname[t]] = 1

\* C5: a fan-out call returns only after every launched worker has appended
\* its result and finished: at the return no worker is running and what is
\* returned is the complete collection.
C5_ReturnAfterAllWorkers ==
    FanOutReturned =>
        /\ \A t \in 1..Len(targets) : wpc[t] = "done"
        /\ mu = NoOwner
        /\ ret.results = results

C5_Witness ==
    FanOutReturned /\ Len(targets) = 2 /\ wpc[1] = "done" /\ wpc[2] = "done"

\* C6: single-cluster mode never propagates an error: the call returns a nil
\* error and exactly one ClusterResult for the requested name, with Error set
\* (and no Result) on a GetClient or operation failure and Result set on success.
C6_SingleModeCapturesErrors ==
    (cpc = "returned" /\ mode = "single") =>
        /\ ret.err = "nil"
        /\ Len(ret.results) = 1
        /\ ret.results[1].Cluster = targets[1]
        /\ IF hgc[Caller] = "ok" /\ hfn[Caller] = "ok"
           THEN ret.results[1].Result = OpValue(targets[1]) /\ ret.results[1].Error = NoError
           ELSE ret.results[1].Result = NoResult /\ ret.results[1].Error # NoError

C6_Witness ==
    /\ cpc = "returned" /\ mode = "single"
    /\ hgc[Caller] = "failed to get config"

(***************************************************************************)
(* Manifest model (gitops.Manifest, ResourceKey)                           *)
(***************************************************************************)
\* untyped values of a decoded document: a scalar or a nested map;
\* NilMap is a nil map[string]interface{} (field absent from the document)
Scalar(v) == [t |-> "scalar", v |-> v]
Map(f) == [t |-> "map", m |-> f]
NilMap == [t |-> "nil"]
IsMap(x) == x.t = "map"

\* the empty string map, for objects without labels
NoLabels == [k \in {} |-> ""]

\* Manifest as parseManifest builds it; APIVersion is kept as its
\* "/"-separated segments
Manifest(apiVersion, kind, namespace, name, labels, spec, data) ==
    [APIVersion |-> apiVersion, Kind |-> kind,
     Metadata |-> [Name |-> name, Namespace |-> namespace, Labels |-> labels],
     Spec |-> spec, Data |-> data]

WebSpec(replicas) ==
    Map([replicas |-> Scalar(replicas), template |-> Map([image |-> Scalar(1)])])

\* the documents of the source, in document order
SourceDocuments ==
    << Manifest(<<"apps", "v1">>, "Deployment", "", "web", [app |-> "web"], WebSpec(2), NilMap),
       Manifest(<<"apps", "v1">>, "Deployment", "default", "web", NoLabels, WebSpec(3), NilMap),
       Manifest(<<"v1">>, "ConfigMap", "prod", "web", [app |-> "web"], NilMap,
                Map([key |-> Scalar(1)])),
       Manifest(<<"v1">>, "Namespace", "prod", "web", NoLabels, NilMap, NilMap),
       Manifest(<<"a", "b", "c">>, "Deployment", "", "web", NoLabels, WebSpec(2), NilMap),
       Manifest(<<"v1">>, "ConfigMap", "prod", "web", NoLabels, NilMap,
                Map([key |-> Scalar(2)])) >>

ManifestUniverse == {SourceDocuments[i] : i \in 1..Len(SourceDocuments)}

\* the documents at the positions S, in document order
RECURSIVE Pick(_, _, _)
Pick(docs, S, i) ==
    IF i > Len(docs) THEN <<>>
    ELSE (IF i \in S THEN <<docs[i]>> ELSE <<>>) \o Pick(docs, S, i + 1)

\* the manifest sets a run can be given: up to MaxManifests of the documents
ManifestSets ==
    {Pick(SourceDocuments, S, 1) :
        S \in {T \in SUBSET (1..Len(SourceDocuments)) : Cardinality(T) <= MaxManifests}}

\* Manifest.GetNamespace
GetNamespace(m) ==
    IF m.Metadata.Namespace = "" THEN "default" ELSE m.Metadata.Namespace

\* Manifest.GetKey
GetKey(m) ==
    [APIVersion |-> m.APIVersion, Kind |-> m.Kind,
     Namespace |-> m.Metadata.Namespace, Name |-> m.Metadata.Name]

\* ResourceKey.String: the "/"-joined key, as the sequence of its segments
KeyString(k) ==
    IF k.Namespace # ""
    THEN k.APIVersion \o <<k.Kind, k.Namespace, k.Name>>
    ELSE k.APIVersion \o <<k.Kind, k.Name>>

\* isClusterScoped
ClusterScopedKinds ==
    {"Namespace", "Node", "PersistentVolume", "ClusterRole", "ClusterRoleBinding",
     "CustomResourceDefinition", "StorageClass", "PriorityClass"}
isClusterScoped(kind) == kind \in ClusterScopedKinds

\* kindToResource, on the kinds of the universe (all are in its table)
kindToResource(kind) ==
    CASE kind = "Deployment" -> "deployments"
      [] kind = "ConfigMap"  -> "configmaps"
      [] kind = "Namespace"  -> "namespaces"
      [] OTHER -> "others"

\* getGVR: schema.ParseGroupVersion accepts "version" and "group/version"
getGVR(m) ==
    IF Len(m.APIVersion) \in {1, 2}
    THEN [ok |-> TRUE, gvr |-> <<m.APIVersion, kindToResource(m.Kind)>>]
    ELSE [ok |-> FALSE, gvr |-> <<m.APIVersion, kindToResource(m.Kind)>>]

(***************************************************************************)
(* The cluster API (dynamic client) as the Syncer and the DriftDetector    *)
(* use it: objects addressed by (gvr, namespace, name)                     *)
(***************************************************************************)
NoObject == [exists |-> FALSE]

\* field manager of Patch(..., PatchOptions{FieldManager: "klaude-deploy", Force: true})
ApplyManager == "klaude-deploy"
\* Create(..., CreateOptions{}) names no field manager: the server records its default
CreateManager == "default-manager"

\* the live address a request goes to: namespaced or cluster-wide
LiveKey(gvr, namespace, name) == <<gvr, namespace, name>>

\* Unstructured{Object: manifest.Raw} after SetNamespace: what is sent
Obj(m, namespace) ==
    [labels |-> m.Metadata.Labels, spec |-> m.Spec, data |-> m.Data,
     namespace |-> IF ~isClusterScoped(m.Kind) /\ namespace # ""
                   THEN namespace ELSE m.Metadata.Namespace]

\* Get: the object, or not found
ApiGet(store, key) == store[key]

\* Create: stores the object under the default manager with a first revision
ApiCreate(store, key, obj) ==
    [store EXCEPT ![key] =
        [exists |-> TRUE, labels |-> obj.labels, spec |-> obj.spec, data |-> obj.data,
         rv |-> 1, managers |-> {CreateManager}]]

\* merge of an applied map into a live one: applied keys win, nested maps merge
RECURSIVE MergeMap(_, _)
MergeMap(lv, ap) ==
    [k \in (DOMAIN lv) \cup (DOMAIN ap) |->
        IF k \notin DOMAIN ap THEN lv[k]
        ELSE IF k \in DOMAIN lv /\ IsMap(lv[k]) /\ IsMap(ap[k])
             THEN Map(MergeMap(lv[k].m, ap[k].m))
             ELSE ap[k]]

MergeField(lv, ap) ==
    IF ~IsMap(ap) THEN lv
    ELSE IF ~IsMap(lv) THEN ap
    ELSE Map(MergeMap(lv.m, ap.m))

MergeLabels(lv, ap) ==
    [k \in (DOMAIN lv) \cup (DOMAIN ap) |-> IF k \in DOMAIN ap THEN ap[k] ELSE lv[k]]

\* forced server-side apply: merges the applied fields, records the applying
\* manager; the revision moves iff the stored object changed
ApiPatch(store, key, obj) ==
    LET old == store[key]
        merged == [exists |-> TRUE,
                   labels |-> MergeLabels(old.labels, obj.labels),
                   spec |-> MergeField(old.spec, obj.spec),
                   data |-> MergeField(old.data, obj.data),
                   rv |-> old.rv,
                   managers |-> old.managers \cup {ApplyManager}]
    IN [store EXCEPT ![key] =
           IF merged = old THEN old ELSE [merged EXCEPT !.rv = old.rv + 1]]

(***************************************************************************)
(* gitops.DriftDetector: comparison of a declared manifest with the live   *)
(* object                                                                  *)
(***************************************************************************)
\* isSystemManagedField
SystemManagedFields ==
    {"resourceVersion", "uid", "creationTimestamp", "generation", "managedFields",
     "selfLink", "status", "clusterIP", "clusterIPs", "nodeName", "podIP", "podIPs",
     "hostIP"}
SkipsEveryField(field) == TRUE
isSystemManagedField(field) == field \in SystemManagedFields

\* one entry of DriftResult.Differences; the code formats it as text
Difference(path, what, actual, expected) ==
    [path |-> path, what |-> what, actual |-> actual, expected |-> expected]

\* compareObjects: the differences of two maps, as a set (the code appends
\* them in map-iteration order)
RECURSIVE compareObjects(_, _, _)
compareObjects(path, expected, actual) ==
    UNION { LET newPath == Append(path, key) IN
            IF key \notin DOMAIN actual
            THEN {Difference(newPath, "missing in cluster", NilMap, NilMap)}
            ELSE IF isSystemManagedField(key) THEN {}
            ELSE IF IsMap(expected[key])
                 THEN IF IsMap(actual[key])
                      THEN compareObjects(newPath, expected[key].m, actual[key].m)
                      ELSE {Difference(newPath, "type mismatch", NilMap, NilMap)}
            ELSE IF expected[key] # actual[key]
                 THEN {Difference(newPath, "differs", actual[key], expected[key])}
                 ELSE {}
          : key \in DOMAIN expected }

\* a comparison that looks at the spec only
compareManifestsSpecOnly(git, cluster) ==
    IF IsMap(git.Spec) /\ IsMap(cluster.spec)
    THEN compareObjects(<<"spec">>, git.Spec.m, cluster.spec.m)
    ELSE {}
\* compareManifests: spec, data and labels of the declared manifest
compareManifests(git, cluster) ==
    LET specDiffs ==
            IF ~IsMap(git.Spec) THEN {}
            ELSE IF ~IsMap(cluster.spec)
                 THEN {Difference(<<"spec">>, "missing in cluster", NilMap, NilMap)}
                 ELSE compareObjects(<<"spec">>, git.Spec.m, cluster.spec.m)
        dataDiffs ==
            IF ~IsMap(git.Data) THEN {}
            ELSE IF ~IsMap(cluster.data)
                 THEN {Difference(<<"data">>, "missing in cluster", NilMap, NilMap)}
                 ELSE compareObjects(<<"data">>, git.Data.m, cluster.data.m)
        labelDiffs ==
            UNION { IF k \notin DOMAIN cluster.labels
                    THEN {Difference(<<"label", k>>, "missing in cluster", NilMap,
                                     Scalar(git.Metadata.Labels[k]))}
                    ELSE IF cluster.labels[k] # git.Metadata.Labels[k]
                         THEN {Difference(<<"label", k>>, "differs",
                                          Scalar(cluster.labels[k]),
                                          Scalar(git.Metadata.Labels[k]))}
                         ELSE {}
                  : k \in DOMAIN git.Metadata.Labels }
    IN specDiffs \cup dataDiffs \cup labelDiffs

DriftResult(cluster, m, namespace, driftType, differences, clusterValue) ==
    [Cluster |-> cluster, ResourceKey |-> KeyString(GetKey(m)), Kind |-> m.Kind,
     Namespace |-> namespace, Name |-> m.Metadata.Name, DriftType |-> driftType,
     Differences |-> differences, GitValue |-> m, ClusterValue |-> clusterValue]

\* the address checkResource fetches
DriftLiveKey(m) ==
    IF GetNamespace(m) # "" /\ ~isClusterScoped(m.Kind)
    THEN LiveKey(getGVR(m).gvr, GetNamespace(m), m.Metadata.Name)
    ELSE LiveKey(getGVR(m).gvr, "", m.Metadata.Name)

\* the error a Get returns when the API fails
GetErrorText == "the server is currently unable to handle the request"

\* checkResource: [err, drifts] for one manifest; getFault is a failing Get
checkResource(store, m, clusterName, getFault) ==
    IF ~getGVR(m).ok THEN [err |-> "Error checking resource: invalid group version",
                           drifts |-> {}]
    ELSE LET current == ApiGet(store, DriftLiveKey(m)) IN
         IF getFault \/ ~current.exists
         THEN [err |-> "nil",
               drifts |-> {DriftResult(clusterName, m, GetNamespace(m), "missing",
                              {Difference(<<>>, "Resource does not exist in cluster",
                                          NilMap, NilMap)}, NoObject)}]
         ELSE LET differences == compareManifests(m, current) IN
              IF differences # {}
              THEN [err |-> "nil",
                    drifts |-> {DriftResult(clusterName, m, GetNamespace(m), "modified",
                                            differences, current)}]
              ELSE [err |-> "nil", drifts |-> {}]

\* the result DetectDrift adds for one key of its expected map
DriftsFor(store, m, clusterName, getFault) ==
    LET r == checkResource(store, m, clusterName, getFault) IN
    IF r.err # "nil"
    THEN {[DriftResult(clusterName, m, GetNamespace(m), "missing",
                       {Difference(<<>>, r.err, NilMap, NilMap)}, NoObject)
              EXCEPT !.GitValue = NilMap]}
    ELSE r.drifts

\* an expected map with one entry per document instead of one per key
DocumentNumber(i) == <<"#1", "#2", "#3", "#4", "#5", "#6">>[i]
ExpectedMapPerDocument(ms) ==
    [key \in {Append(KeyString(GetKey(ms[i])), DocumentNumber(i)) : i \in 1..Len(ms)} |->
        ms[CHOOSE i \in 1..Len(ms) :
              key = Append(KeyString(GetKey(ms[i])), DocumentNumber(i))]]
\* DetectDrift's expected map: key string -> manifest, later documents overwrite
ExpectedMap(ms) ==
    [key \in {KeyString(GetKey(ms[i])) : i \in 1..Len(ms)} |->
        LET last == CHOOSE i \in 1..Len(ms) :
                        /\ KeyString(GetKey(ms[i])) = key
                        /\ \A j \in 1..Len(ms) : KeyString(GetKey(ms[j])) = key => j <= i
        IN ms[last]]

(***************************************************************************)
(* gitops.Syncer                                                           *)
(***************************************************************************)
SyncResult(cluster, m, namespace, action, message) ==
    [Cluster |-> cluster, Kind |-> m.Kind, Name |-> m.Metadata.Name,
     Namespace |-> namespace, Action |-> action, Message |-> message]

Contains(list, x) == \E i \in 1..Len(list) : list[i] = x

\* shouldSync
shouldSyncIncludeFirst(kind, o) ==
    IF Len(o.Include) > 0 THEN Contains(o.Include, kind)
    ELSE ~Contains(o.Exclude, kind)
shouldSync(kind, o) ==
    IF Contains(o.Exclude, kind) THEN FALSE
    ELSE IF Len(o.Include) > 0 THEN Contains(o.Include, kind)
    ELSE TRUE

\* Sync: the namespace a manifest is synced into
SyncNamespace(m, o) ==
    IF o.Namespace # "" /\ ~isClusterScoped(m.Kind) THEN o.Namespace
    ELSE GetNamespace(m)

\* the address syncResource fetches, creates or patches
SyncLiveKey(m, namespace) ==
    IF isClusterScoped(m.Kind)
    THEN LiveKey(getGVR(m).gvr, "", m.Metadata.Name)
    ELSE LiveKey(getGVR(m).gvr, namespace, m.Metadata.Name)

\* syncResource: "if dryRun { ... return result, nil }" before any mutation
DryRunIgnored(dryRun) == FALSE
DryRunReturns(dryRun) == dryRun

\* syncResource: "if existing.GetResourceVersion() == updated.GetResourceVersion()"
SameRevisionNever(existing, updated) == FALSE
SameRevision(existing, updated) == existing.rv = updated.rv

\* syncResource: [store, err, action, message]; getFault / writeFault are
\* failing API calls
syncResource(store, m, namespace, dryRun, getFault, writeFault) ==
    IF ~getGVR(m).ok
    THEN [store |-> store, err |-> "failed to get GVR", action |-> "", message |-> ""]
    ELSE
    LET key == SyncLiveKey(m, namespace)
        obj == Obj(m, namespace)
        existing == ApiGet(store, key)
    IN IF getFault \/ ~existing.exists
       THEN \* "Resource doesn't exist - create it"
            IF DryRunReturns(dryRun)
            THEN [store |-> store, err |-> "nil", action |-> "created",
                  message |-> "Would create (dry-run)"]
            ELSE IF writeFault
            THEN [store |-> store, err |-> "failed to create: api error",
                  action |-> "", message |-> ""]
            ELSE IF existing.exists
            THEN [store |-> store, err |-> "failed to create: already exists",
                  action |-> "", message |-> ""]
            ELSE [store |-> ApiCreate(store, key, obj), err |-> "nil",
                  action |-> "created", message |-> "Created"]
       ELSE IF DryRunReturns(dryRun)
            THEN [store |-> store, err |-> "nil", action |-> "updated",
                  message |-> "Would update (dry-run)"]
            ELSE IF writeFault
            THEN [store |-> store, err |-> "failed to update: api error",
                  action |-> "", message |-> ""]
            ELSE LET after == ApiPatch(store, key, obj) IN
                 IF SameRevision(existing, after[key])
                 THEN [store |-> after, err |-> "nil", action |-> "unchanged",
                       message |-> "No changes"]
                 ELSE [store |-> after, err |-> "nil", action |-> "updated",
                       message |-> "Updated"]

(***************************************************************************)
(* Sync and DetectDrift, called one after the other on one cluster         *)
(***************************************************************************)
SyncOptions(namespace, include, exclude) ==
    [Namespace |-> namespace, Include |-> include, Exclude |-> exclude]

\* every address a manifest of the universe can be synced to or fetched from
LiveKeys ==
    {LiveKey(getGVR(m).gvr, ns, m.Metadata.Name) :
        m \in ManifestUniverse, ns \in {"", "default", "prod"}}

EmptyCluster == [k \in LiveKeys |-> NoObject]

\* a cluster where deployment default/web already runs, applied by someone else
PreloadedCluster ==
    [EmptyCluster EXCEPT
        ![LiveKey(<<<<"apps", "v1">>, "deployments">>, "default", "web")] =
            [exists |-> TRUE, labels |-> NoLabels, spec |-> WebSpec(3), data |-> NilMap,
             rv |-> 1, managers |-> {"kubectl"}]]

\* the requests: namespace override and kind filters, and the state the
\* cluster is in when the request arrives
Requests ==
    { [opts |-> SyncOptions("", <<>>, <<>>), store |-> EmptyCluster],
      [opts |-> SyncOptions("", <<>>, <<>>), store |-> PreloadedCluster],
      [opts |-> SyncOptions("prod", <<>>, <<>>), store |-> EmptyCluster],
      [opts |-> SyncOptions("", <<"ConfigMap">>, <<>>), store |-> EmptyCluster],
      [opts |-> SyncOptions("", <<"Deployment">>, <<"Deployment">>), store |-> EmptyCluster] }

\* the manifests are read and the options parsed (handleSyncFromGit,
\* handleDetectDrift)
LoadManifests(ms, req) ==
    /\ spc = "init"
    /\ manifests' = ms
    /\ opts' = req.opts
    /\ live' = req.store
    /\ spc' = "idle"
    /\ UNCHANGED <<idx, cur, runs, faults>>
    /\ UNCHANGED notSyncVars

\* Sync(ctx, manifests, clusterName, opts): summary := &SyncSummary{...}
SyncStart(dryRun) ==
    /\ spc = "idle"
    /\ Len(runs) < MaxRuns
    /\ cur' = [NoRun EXCEPT !.op = "sync", !.dryRun = dryRun, !.liveBefore = live]
    /\ idx' = 1
    /\ spc' = "sync"
    /\ UNCHANGED <<manifests, opts, live, runs, faults>>
    /\ UNCHANGED notSyncVars

\* "switch result.Action": the counter of the action goes up by one
BumpCreated(summary, action) == [summary EXCEPT !.Created = @ + 1]
Bump(summary, action) ==
    CASE action = "created"   -> [summary EXCEPT !.Created = @ + 1]
      [] action = "updated"   -> [summary EXCEPT !.Updated = @ + 1]
      [] action = "unchanged" -> [summary EXCEPT !.Unchanged = @ + 1]
      [] OTHER -> summary

\* the loop index after a manifest failed: "continue"
AfterFailedAbort(i) == Len(manifests) + 1
AfterFailed(i) == i + 1

\* "for _, manifest := range manifests": a slice is ranged over by index
RangeEntryReversed(ms, i) == ms[Len(ms) + 1 - i]
RangeEntry(ms, i) == ms[i]

\* one iteration of Sync's loop over the manifests
SyncStep(getFault, writeFault) ==
    /\ spc = "sync"
    /\ idx <= Len(manifests)
    /\ LET m == RangeEntry(manifests, idx)
           namespace == SyncNamespace(m, opts)
           fetched == shouldSync(m.Kind, opts) /\ getGVR(m).ok
           r == syncResource(live, m, namespace, cur.dryRun, getFault, writeFault)
           used == (IF getFault THEN 1 ELSE 0) + (IF writeFault THEN 1 ELSE 0)
       IN \* a failing call is one the code makes; a Get that fails where there
          \* is no object gives the code the same answer as not-found
          /\ getFault => fetched /\ live[SyncLiveKey(m, namespace)].exists
          /\ writeFault => fetched /\ ~cur.dryRun
          /\ faults + used <= MaxFaults
          /\ faults' = faults + used
          /\ IF ~shouldSync(m.Kind, opts)
             THEN /\ cur' = [cur EXCEPT
                               !.summary.Skipped = @ + 1,
                               !.summary.Results = Append(@,
                                   SyncResult(SyncCluster, m, GetNamespace(m), "skipped",
                                              "Kind excluded from sync")),
                               !.errs = Append(@, "")]
                  /\ idx' = idx + 1
                  /\ UNCHANGED live
             ELSE IF r.err # "nil"
             THEN /\ cur' = [cur EXCEPT
                               !.summary.Failed = @ + 1,
                               !.summary.Results = Append(@,
                                   SyncResult(SyncCluster, m, namespace, "failed", r.err)),
                               !.errs = Append(@, r.err),
                               !.getFaults = @ + (IF getFault THEN 1 ELSE 0)]
                  /\ idx' = AfterFailed(idx)
                  /\ live' = r.store
             ELSE /\ cur' = [cur EXCEPT
                               !.summary = Bump([@ EXCEPT !.Results = Append(@,
                                   SyncResult(SyncCluster, m, namespace, r.action,
                                              r.message))], r.action),
                               !.errs = Append(@, ""),
                               !.getFaults = @ + (IF getFault THEN 1 ELSE 0)]
                  /\ idx' = idx + 1
                  /\ live' = r.store
    /\ UNCHANGED <<spc, manifests, opts, runs>>
    /\ UNCHANGED notSyncVars

\* return summary, nil
SyncReturn ==
    /\ spc = "sync"
    /\ idx > Len(manifests)
    /\ runs' = Append(runs, [cur EXCEPT !.err = "nil", !.liveAfter = live])
    /\ cur' = NoRun
    /\ spc' = "idle"
    /\ UNCHANGED <<manifests, opts, live, idx, faults>>
    /\ UNCHANGED notSyncVars

\* DetectDrift(ctx, manifests, clusterName): build the expected map
DriftStart ==
    /\ spc = "idle"
    /\ Len(runs) < MaxRuns
    /\ cur' = [NoRun EXCEPT !.op = "drift", !.liveBefore = live,
                            !.pending = DOMAIN ExpectedMap(manifests)]
    /\ spc' = "drift"
    /\ UNCHANGED <<manifests, opts, live, idx, runs, faults>>
    /\ UNCHANGED notSyncVars

\* one iteration of "for key, manifest := range expected" (map order)
DriftStep(key, getFault) ==
    /\ spc = "drift"
    /\ key \in cur.pending
    /\ LET m == ExpectedMap(manifests)[key]
           found == DriftsFor(live, m, SyncCluster, getFault)
           used == IF getFault THEN 1 ELSE 0
       IN /\ getFault => getGVR(m).ok /\ live[DriftLiveKey(m)].exists
          /\ faults + used <= MaxFaults
          /\ faults' = faults + used
          /\ cur' = [cur EXCEPT
                       !.pending = @ \ {key},
                       !.getFaults = @ + used,
                       !.faulted = IF getFault THEN @ \cup {key} ELSE @,
                       !.drifts = IF found = {} THEN @
                                  ELSE Append(@, CHOOSE d \in found : TRUE)]
    /\ UNCHANGED <<spc, manifests, opts, live, idx, runs>>
    /\ UNCHANGED notSyncVars

\* return drifts, nil
DriftReturn ==
    /\ spc = "drift"
    /\ cur.pending = {}
    /\ runs' = Append(runs, [cur EXCEPT !.err = "nil", !.liveAfter = live])
    /\ cur' = NoRun
    /\ spc' = "idle"
    /\ UNCHANGED <<manifests, opts, live, idx, faults>>
    /\ UNCHANGED notSyncVars

SyncNext ==
    \/ /\ spc = "init"
       /\ \E ms \in ManifestSets, req \in Requests : LoadManifests(ms, req)
    \/ \E dryRun \in BOOLEAN : SyncStart(dryRun)
    \/ \E getFault, writeFault \in BOOLEAN : SyncStep(getFault, writeFault)
    \/ SyncReturn
    \/ DriftStart
    \/ \E key \in cur.pending, getFault \in BOOLEAN : DriftStep(key, getFault)
    \/ DriftReturn

SyncSpec == Init /\ [][SyncNext]_vars

(***************************************************************************)
(* Properties of Sync and DetectDrift                                      *)
(***************************************************************************)
IsSyncRun(r) == r.op = "sync"
IsRealSync(r) == r.op = "sync" /\ ~r.dryRun
Actions(r) == {r.summary.Results[i].Action : i \in 1..Len(r.summary.Results)}

\* C7: two non-dry-run Syncs in a row of the same manifest set (no API call
\* failing, nothing failed in the first run, nobody else writing): the second
\* run creates nothing and classifies every manifest it does not filter out
\* as unchanged.
C7_SecondSyncAllUnchanged ==
    \A k \in 1..(Len(runs) - 1) :
        ( /\ IsRealSync(runs[k]) /\ IsRealSync(runs[k + 1])
          /\ faults = 0
          /\ runs[k].summary.Failed = 0 )
        => /\ runs[k + 1].summary.Created = 0
           /\ Actions(runs[k + 1]) \subseteq {"unchanged", "skipped"}

\* the live address Sync uses for the i-th manifest
TargetKey(i) == SyncLiveKey(manifests[i], SyncNamespace(manifests[i], opts))

\* C8: a dry-run Sync never changes the cluster: during and after the run every
\* object is as it was before, and each manifest that is fetched is classified
\* would-create or would-update by the existence check alone.
C8_DryRunNoMutation ==
    /\ (spc = "sync" /\ cur.dryRun) => live = cur.liveBefore
    /\ \A k \in 1..Len(runs) :
          (IsSyncRun(runs[k]) /\ runs[k].dryRun) =>
             /\ runs[k].liveAfter = runs[k].liveBefore
             /\ \A i \in 1..Len(runs[k].summary.Results) :
                   LET res == runs[k].summary.Results[i] IN
                   \/ res.Action \in {"skipped", "failed"}
                   \/ /\ res.Action = "updated"
                      /\ res.Message = "Would update (dry-run)"
                      /\ runs[k].liveBefore[TargetKey(i)].exists
                   \/ /\ res.Action = "created"
                      /\ res.Message = "Would create (dry-run)"
                      /\ ~runs[k].liveBefore[TargetKey(i)].exists \/ runs[k].getFaults > 0

C8_Witness ==
    \E k \in 1..Len(runs) :
        /\ IsSyncRun(runs[k]) /\ runs[k].dryRun
        /\ runs[k].summary.Updated >= 1 /\ runs[k].summary.Created >= 1
        /\ runs[k].getFaults = 0

\* C9: DetectDrift right after a non-dry-run Sync of the same manifest set in
\* which nothing failed (and nothing was filtered out), with no failing API
\* call and nobody else writing, reports no drift.
C9_NoDriftAfterSync ==
    \A k \in 1..(Len(runs) - 1) :
        ( /\ IsRealSync(runs[k])
          /\ runs[k].summary.Failed = 0 /\ runs[k].summary.Skipped = 0
          /\ runs[k + 1].op = "drift"
          /\ faults = 0 )
        => runs[k + 1].drifts = <<>>

\* C10: an API error on one manifest makes exactly that manifest's result
\* `failed` with the error text; the loop goes on: every manifest of the set
\* has its own result, in order, and Sync returns a nil error.
C10_FailureDoesNotAbort ==
    \A k \in 1..Len(runs) :
        IsSyncRun(runs[k]) =>
           LET res == runs[k].summary.Results IN
           /\ runs[k].err = "nil"
           /\ Len(res) = Len(manifests)
           /\ \A i \in 1..Len(res) :
                 /\ res[i].Kind = manifests[i].Kind
                 /\ res[i].Name = manifests[i].Metadata.Name
                 /\ res[i].Action = "failed" <=> runs[k].errs[i] # ""
                 /\ res[i].Action = "failed" => res[i].Message = runs[k].errs[i]
           /\ runs[k].summary.Failed = Cardinality({i \in 1..Len(res) : res[i].Action = "failed"})

C10_Witness ==
    \E k \in 1..Len(runs) :
        /\ IsRealSync(runs[k])
        /\ Len(runs[k].summary.Results) = 2
        /\ runs[k].summary.Results[1].Action = "failed"
        /\ runs[k].summary.Results[1].Message = "failed to create: api error"
        /\ runs[k].summary.Results[2].Action = "created"

(***************************************************************************)
(* Server.handleSyncFromGit: one goroutine per target cluster, each        *)
(* running Syncer.Sync over the same []Manifest                            *)
(***************************************************************************)
\* Raw["metadata"]["namespace"] of each manifest as parseManifest found it
ParsedRaw(ms) == [i \in 1..Len(ms) |-> ms[i].Metadata.Namespace]

\* the options of a sync request
FanRequests ==
    { [DryRun |-> FALSE, Namespace |-> "", Include |-> <<>>, Exclude |-> <<>>],
      [DryRun |-> FALSE, Namespace |-> "prod", Include |-> <<>>, Exclude |-> <<>>],
      [DryRun |-> TRUE, Namespace |-> "prod", Include |-> <<>>, Exclude |-> <<>>],
      [DryRun |-> FALSE, Namespace |-> "", Include |-> <<"ConfigMap">>, Exclude |-> <<>>] }

\* the summary a worker records when it cannot reach its cluster
FailedSummary(cluster, message) ==
    [EmptySummary(cluster) EXCEPT
        !.Failed = 1,
        !.Results = <<[Cluster |-> cluster, Kind |-> "", Name |-> "", Namespace |-> "",
                       Action |-> "failed", Message |-> message]>>]

\* the manifests are read, the targets resolved, and one worker is launched
\* per target: "wg.Add(1); go func(cluster string) {...}(clusterName)"
FanStart(ms, o, names) ==
    /\ fpc = "idle"
    /\ Len(ms) > 0
    /\ fmanifests' = ms
    /\ raw' = ParsedRaw(ms)
    /\ fopts' = o
    /\ ftargets' = names
    /\ kpc' = [w \in Workers |-> IF w <= Len(names) THEN "getConfig" ELSE "idle"]
    /\ kidx' = [w \in Workers |-> 0]
    /\ klive' = [w \in Workers |-> IF w <= Len(names) THEN EmptyCluster ELSE <<>>]
    /\ ksummary' = [w \in Workers |->
                      IF w <= Len(names) THEN EmptySummary(names[w])
                      ELSE EmptySummary(EmptyName)]
    /\ swg' = Len(names)
    /\ fpc' = "wait"
    /\ UNCHANGED <<summaries, smu>>
    /\ UNCHANGED notFanVars

\* targetClusters: the first n discovered clusters (the workers are launched
\* for all of them at once, their order plays no part)
FanTargets ==
    {[i \in 1..n |-> i] : n \in {k \in 0..MaxTargets : k <= NumClusters}}

ConfigOutcomes == {"ok", "Failed to get config", "Failed to create syncer"}

\* s.manager.GetConfig(cluster); gitops.NewSyncer(config)
KGetConfig(w, outcome) ==
    /\ fpc = "wait"
    /\ kpc[w] = "getConfig"
    /\ IF outcome = "ok"
       THEN /\ kpc' = [kpc EXCEPT ![w] = "loop"]
            /\ kidx' = [kidx EXCEPT ![w] = 1]
            /\ UNCHANGED ksummary
       ELSE /\ kpc' = [kpc EXCEPT ![w] = "lock"]
            /\ ksummary' = [ksummary EXCEPT ![w] = FailedSummary(ftargets[w], outcome)]
            /\ UNCHANGED kidx
    /\ UNCHANGED <<fpc, fmanifests, raw, fopts, ftargets, klive, summaries, smu, swg>>
    /\ UNCHANGED notFanVars

\* Sync's loop up to syncResource's obj.SetNamespace: a filtered kind is
\* skipped, a bad apiVersion fails before the object is touched, a namespaced
\* kind has the namespace written into its Raw map
KNext(w) ==
    /\ fpc = "wait"
    /\ kpc[w] = "loop"
    /\ IF kidx[w] > Len(fmanifests)
       THEN /\ kpc' = [kpc EXCEPT ![w] = "lock"]
            /\ UNCHANGED <<kidx, ksummary>>
       ELSE LET m == fmanifests[kidx[w]]
                namespace == SyncNamespace(m, fopts)
            IN IF ~shouldSync(m.Kind, fopts)
               THEN /\ ksummary' = [ksummary EXCEPT
                          ![w].Skipped = @ + 1,
                          ![w].Results = Append(@,
                              SyncResult(ftargets[w], m, GetNamespace(m), "skipped",
                                         "Kind excluded from sync"))]
                    /\ kidx' = [kidx EXCEPT ![w] = @ + 1]
                    /\ UNCHANGED kpc
               ELSE IF ~getGVR(m).ok
               THEN /\ ksummary' = [ksummary EXCEPT
                          ![w].Failed = @ + 1,
                          ![w].Results = Append(@,
                              SyncResult(ftargets[w], m, namespace, "failed",
                                         "failed to get GVR"))]
                    /\ kidx' = [kidx EXCEPT ![w] = @ + 1]
                    /\ UNCHANGED kpc
               ELSE /\ kpc' = [kpc EXCEPT ![w] =
                                  IF ~isClusterScoped(m.Kind) /\ namespace # ""
                                  THEN "setNamespace" ELSE "apply"]
                    /\ UNCHANGED <<kidx, ksummary>>
    /\ UNCHANGED <<fpc, fmanifests, raw, fopts, ftargets, klive, summaries, smu, swg>>
    /\ UNCHANGED notFanVars

\* another worker is inside the write to the same map
WritingSameMap(w) ==
    \E v \in Workers \ {w} : kpc[v] = "setNamespace" /\ kidx[v] = kidx[w]

\* obj.SetNamespace(namespace) completes: Raw["metadata"]["namespace"] = namespace.
\* Two unsynchronised writers of one Go map: the runtime may stop the process
\* ("fatal error: concurrent map writes") or both writes go through.
KSetNamespace(w, thrown) ==
    /\ fpc = "wait"
    /\ kpc[w] = "setNamespace"
    /\ thrown => WritingSameMap(w)
    /\ IF thrown
       THEN /\ fpc' = "fatal"
            /\ UNCHANGED <<raw, kpc>>
       ELSE /\ raw' = [raw EXCEPT ![kidx[w]] = SyncNamespace(fmanifests[kidx[w]], fopts)]
            /\ kpc' = [kpc EXCEPT ![w] = "apply"]
            /\ UNCHANGED fpc
    /\ UNCHANGED <<fmanifests, fopts, ftargets, kidx, klive, ksummary, summaries, smu, swg>>
    /\ UNCHANGED notFanVars

\* the rest of syncResource against the worker's own cluster, and Sync's
\* bookkeeping of its result
KApply(w) ==
    /\ fpc = "wait"
    /\ kpc[w] = "apply"
    /\ LET m == fmanifests[kidx[w]]
           namespace == SyncNamespace(m, fopts)
           r == syncResource(klive[w], m, namespace, fopts.DryRun, FALSE, FALSE)
       IN /\ klive' = [klive EXCEPT ![w] = r.store]
          /\ ksummary' = [ksummary EXCEPT ![w] =
                IF r.err # "nil"
                THEN [@ EXCEPT !.Failed = @ + 1,
                               !.Results = Append(@,
                                   SyncResult(ftargets[w], m, namespace, "failed", r.err))]
                ELSE Bump([@ EXCEPT !.Results = Append(@,
                               SyncResult(ftargets[w], m, namespace, r.action, r.message))],
                          r.action)]
    /\ kidx' = [kidx EXCEPT ![w] = @ + 1]
    /\ kpc' = [kpc EXCEPT ![w] = "loop"]
    /\ UNCHANGED <<fpc, fmanifests, raw, fopts, ftargets, summaries, smu, swg>>
    /\ UNCHANGED notFanVars

\* "summaries = append(summaries, ...)": the worker's summary joins the ones
\* already collected
CollectOverwrites(collected, summary) == <<summary>>
Collect(collected, summary) == Append(collected, summary)

\* mu.Lock()
KLock(w) ==
    /\ fpc = "wait"
    /\ kpc[w] = "lock"
    /\ smu = NoOwner
    /\ smu' = w
    /\ kpc' = [kpc EXCEPT ![w] = "append"]
    /\ UNCHANGED <<fpc, fmanifests, raw, fopts, ftargets, kidx, klive, ksummary,
                   summaries, swg>>
    /\ UNCHANGED notFanVars

\* summaries = append(summaries, ...); mu.Unlock(); deferred wg.Done()
KAppend(w) ==
    /\ fpc = "wait"
    /\ kpc[w] = "append"
    /\ smu = w
    /\ summaries' = Collect(summaries, ksummary[w])
    /\ smu' = NoOwner
    /\ swg' = swg - 1
    /\ kpc' = [kpc EXCEPT ![w] = "done"]
    /\ UNCHANGED <<fpc, fmanifests, raw, fopts, ftargets, kidx, klive, ksummary>>
    /\ UNCHANGED notFanVars

\* wg.Wait(); result.Summaries = summaries; return result, nil
FanReturn ==
    /\ fpc = "wait"
    /\ swg = 0
    /\ fpc' = "returned"
    /\ UNCHANGED <<fmanifests, raw, fopts, ftargets, kpc, kidx, klive, ksummary,
                   summaries, smu, swg>>
    /\ UNCHANGED notFanVars

FanNext ==
    \/ /\ fpc = "idle"
       /\ \E ms \in ManifestSets, o \in FanRequests, names \in FanTargets :
             FanStart(ms, o, names)
    \/ \E w \in Workers, outcome \in ConfigOutcomes : KGetConfig(w, outcome)
    \/ \E w \in Workers : KNext(w)
    \/ \E w \in Workers, thrown \in BOOLEAN : KSetNamespace(w, thrown)
    \/ \E w \in Workers : KApply(w)
    \/ \E w \in Workers : KLock(w)
    \/ \E w \in Workers : KAppend(w)
    \/ FanReturn

FanSpec == Init /\ [][FanNext]_vars

(***************************************************************************)
(* Properties of the sync fan-out                                          *)
(***************************************************************************)
\* C11: the summaries slice (under mu) and the handle cache are the only
\* state the per-cluster workers share and change: no two workers are ever
\* inside an unlocked write to the same data, and the parsed manifest set
\* handed to all workers is never changed by a worker.
C11_WorkersShareOnlyLockedState ==
    /\ Len(ftargets) >= 2 => raw = ParsedRaw(fmanifests)
    /\ \A w, v \in Workers :
          w # v => ~(/\ kpc[w] = "setNamespace" /\ kpc[v] = "setNamespace"
                     /\ kidx[w] = kidx[v])

(***************************************************************************)
(* multicluster.Selector: FindClustersForWorkload / clusterMeetsRequirements *)
(***************************************************************************)
\* a quantity string is the sequence of its characters
Digits == {"0", "1", "2", "3", "4", "5", "6", "7", "8", "9"}

DigitValue(c) ==
    CASE c = "0" -> 0 [] c = "1" -> 1 [] c = "2" -> 2 [] c = "3" -> 3 [] c = "4" -> 4
      [] c = "5" -> 5 [] c = "6" -> 6 [] c = "7" -> 7 [] c = "8" -> 8 [] c = "9" -> 9

\* length of the leading run of digits
RECURSIVE NumberLen(_)
NumberLen(str) ==
    IF str = <<>> \/ Head(str) \notin Digits THEN 0 ELSE 1 + NumberLen(Tail(str))

RECURSIVE NumberValue(_, _)
NumberValue(str, acc) ==
    IF str = <<>> THEN acc ELSE NumberValue(Tail(str), acc * 10 + DigitValue(Head(str)))

\* the suffixes of resource.ParseQuantity that the model knows, as multipliers
\* of one thousandth of a unit
SuffixMilli(suffix) ==
    CASE suffix = <<>>          -> 1000
      [] suffix = <<"m">>       -> 1
      [] suffix = <<"k">>       -> 1000000
      [] suffix = <<"K", "i">>  -> 1024000
      [] OTHER                  -> 0

\* resource.ParseQuantity on unsigned whole numbers with a suffix: [ok, milli]
ParseQuantity(str) ==
    LET n == NumberLen(str)
        number == SubSeq(str, 1, n)
        suffix == SubSeq(str, n + 1, Len(str))
    IN IF n = 0 \/ SuffixMilli(suffix) = 0
       THEN [ok |-> FALSE, milli |-> 0]
       ELSE [ok |-> TRUE, milli |-> NumberValue(number, 0) * SuffixMilli(suffix)]

GPUInfo(type, quantity) == [Type |-> type, Quantity |-> quantity]

ClusterCapabilities(cluster, cpu, memory, gpus, labels) ==
    [Cluster |-> cluster, AllocatableCPU |-> cpu, AllocatableMemory |-> memory,
     GPUs |-> gpus, Labels |-> labels]

\* cap.Labels[key]: a key the map does not hold reads as ""
LabelValueOrMissing(labels, key) == IF key \in DOMAIN labels THEN labels[key] ELSE "<missing>"
LabelValue(labels, key) == IF key \in DOMAIN labels THEN labels[key] ELSE ""

\* what GetCapabilitiesForCluster can find on a cluster; the last is the
\* bare ClusterCapabilities{Cluster: name} of a cluster that failed to answer
CapabilityChoices(cluster) ==
    << ClusterCapabilities(cluster, <<"1", "0">>, <<"1", "K", "i">>,
                          <<GPUInfo("nvidia.com/gpu", 1), GPUInfo("amd.com/gpu", 4)>>,
                          [arch |-> "amd64"]),
      ClusterCapabilities(cluster, <<"9">>, <<"1", "k">>,
                          <<GPUInfo("nvidia.com/gpu", 2)>>,
                          [arch |-> "arm64", region |-> "eu"]),
      ClusterCapabilities(cluster, <<"5", "0", "0", "m">>, <<"2", "K", "i">>, <<>>,
                          [region |-> "eu"]),
      ClusterCapabilities(cluster, <<>>, <<>>, <<>>, [k \in {} |-> ""]) >>

\* the requests
WorkloadRequirements ==
    [MinCPU : {<<>>, <<"1", "0">>, <<"t", "w", "o">>},
     MinMemory : {<<>>, <<"1", "K", "i">>, <<"1", "x">>},
     GPUType : {"", "nvidia.com/gpu"},
     MinGPU : {-1, 0, 2, 5},
     NodeLabels : {[k \in {} |-> ""], [arch |-> "amd64"], [region |-> ""]}]

RECURSIVE TotalGPU(_)
TotalGPU(gpus) == IF gpus = <<>> THEN 0 ELSE Head(gpus).Quantity + TotalGPU(Tail(gpus))

\* "if err == nil { ...; if err != nil || available.Cmp(required) < 0 { return false } }"
QuantityClause(requiredStr, availableStr) ==
    LET required == ParseQuantity(requiredStr)
        available == ParseQuantity(availableStr)
    IN required.ok => (available.ok /\ available.milli >= required.milli)

\* clusterMeetsRequirements
clusterMeetsRequirements(cap, req) ==
    /\ IF req.GPUType # ""
       THEN \E i \in 1..Len(cap.GPUs) :
               cap.GPUs[i].Type = req.GPUType /\ cap.GPUs[i].Quantity >= req.MinGPU
       ELSE req.MinGPU > 0 => TotalGPU(cap.GPUs) >= req.MinGPU
    /\ req.MinMemory # <<>> => QuantityClause(req.MinMemory, cap.AllocatableMemory)
    /\ req.MinCPU # <<>> => QuantityClause(req.MinCPU, cap.AllocatableCPU)
    /\ \A key \in DOMAIN req.NodeLabels :
          LabelValue(cap.Labels, key) = req.NodeLabels[key]

\* FindClustersForWorkload: capabilities, err := s.GetClusterCapabilities(ctx)
FindStart(req, caps, err) ==
    /\ qpc = "idle"
    /\ qreq' = req
    /\ IF err # "nil"
       THEN /\ qret' = [clusters |-> <<>>, err |-> err]
            /\ qpc' = "returned"
            /\ UNCHANGED <<qcaps, qidx>>
       ELSE /\ qcaps' = caps
            /\ qidx' = 1
            /\ qpc' = "loop"
            /\ UNCHANGED qret
    /\ matchingClusters' = <<>>
    /\ UNCHANGED notSelVars

\* one iteration of "for _, cap := range capabilities"
FindStep ==
    /\ qpc = "loop"
    /\ qidx <= Len(qcaps)
    /\ matchingClusters' =
          IF clusterMeetsRequirements(qcaps[qidx], qreq)
          THEN Append(matchingClusters, qcaps[qidx].Cluster)
          ELSE matchingClusters
    /\ qidx' = qidx + 1
    /\ UNCHANGED <<qpc, qreq, qcaps, qret>>
    /\ UNCHANGED notSelVars

\* return matchingClusters, nil
FindReturn ==
    /\ qpc = "loop"
    /\ qidx > Len(qcaps)
    /\ qret' = [clusters |-> matchingClusters, err |-> "nil"]
    /\ qpc' = "returned"
    /\ UNCHANGED <<qreq, qcaps, qidx, matchingClusters>>
    /\ UNCHANGED notSelVars

\* GetClusterCapabilities: one entry per discovered cluster
CapabilityLists ==
    {[i \in 1..NumClusters |-> CapabilityChoices(i)[f[i]]] :
        f \in [1..NumClusters -> 1..Len(CapabilityChoices(1))]}

SelNext ==
    \/ /\ qpc = "idle"
       /\ \E req \in WorkloadRequirements, caps \in CapabilityLists,
             err \in {"nil", "failed to discover clusters"} : FindStart(req, caps, err)
    \/ FindStep
    \/ FindReturn

SelSpec == Init /\ [][SelNext]_vars

(***************************************************************************)
(* Properties of the selector                                              *)
(***************************************************************************)
Malformed(str) == str # <<>> /\ ~ParseQuantity(str).ok

\* C12: a malformed MinCPU or MinMemory counts as "requirement not met" on
\* every cluster: the call returns no cluster, and no error.
C12_MalformedQuantityFailsClosed ==
    (/\ qpc = "returned" /\ qret.err = "nil"
     /\ Malformed(qreq.MinCPU) \/ Malformed(qreq.MinMemory))
    => qret.clusters = <<>>

\* the clauses as the contract words them
RECURSIVE CountOfType(_, _)
CountOfType(gpus, type) ==
    IF gpus = <<>> THEN 0
    ELSE (IF Head(gpus).Type = type THEN Head(gpus).Quantity ELSE 0)
         + CountOfType(Tail(gpus), type)

AtLeast(availableStr, requiredStr) ==
    /\ ParseQuantity(availableStr).ok /\ ParseQuantity(requiredStr).ok
    /\ ParseQuantity(availableStr).milli >= ParseQuantity(requiredStr).milli

SatisfiesAllClauses(cap, req) ==
    /\ req.GPUType # "" => CountOfType(cap.GPUs, req.GPUType) >= req.MinGPU
    /\ (req.GPUType = "" /\ req.MinGPU > 0) => TotalGPU(cap.GPUs) >= req.MinGPU
    /\ req.MinCPU # <<>> => AtLeast(cap.AllocatableCPU, req.MinCPU)
    /\ req.MinMemory # <<>> => AtLeast(cap.AllocatableMemory, req.MinMemory)
    /\ \A key \in DOMAIN req.NodeLabels :
          key \in DOMAIN cap.Labels /\ cap.Labels[key] = req.NodeLabels[key]

\* C13: the call returns exactly the clusters that satisfy every clause: the
\* GPU clause (typed count, or the sum over all types), allocatable CPU and
\* memory at least the minimum when given, every required label present with
\* the required value.
C13_ExactlyTheSatisfyingClusters ==
    (qpc = "returned" /\ qret.err = "nil")
    => \A i \in 1..Len(qcaps) :
          (\E k \in 1..Len(qret.clusters) : qret.clusters[k] = qcaps[i].Cluster)
          <=> SatisfiesAllClauses(qcaps[i], qreq)

(***************************************************************************)
(* Properties of manifest identity                                         *)
(***************************************************************************)
\* two documents of the set with identical (apiVersion, kind, namespace, name)
SameIdentity(i, j) == i < j /\ GetKey(manifests[i]) = GetKey(manifests[j])

DriftsOfKey(r, i) ==
    {d \in 1..Len(r.drifts) : r.drifts[d].ResourceKey = KeyString(GetKey(manifests[i]))}

\* C14: two manifests with identical (apiVersion, kind, namespace, name) are
\* one resource to both components: Sync sends both to the same live object
\* (the later one finds what the earlier one wrote and is an update of it, never
\* a second create), and DetectDrift fetches one live object for them and
\* reports on it at most once.
C14_SameIdentitySameResource ==
    \A k \in 1..Len(runs) : \A i, j \in 1..Len(manifests) :
        SameIdentity(i, j) =>
           /\ TargetKey(i) = TargetKey(j)
           /\ DriftLiveKey(manifests[i]) = DriftLiveKey(manifests[j])
           /\ (IsRealSync(runs[k]) /\ faults = 0
               /\ runs[k].summary.Results[i].Action \in {"created", "updated", "unchanged"})
              => /\ runs[k].summary.Results[j].Action \in {"updated", "unchanged"}
                 /\ runs[k].liveAfter[TargetKey(i)].exists
           /\ runs[k].op = "drift" => Cardinality(DriftsOfKey(runs[k], i)) <= 1

C14_Witness ==
    /\ Len(runs) = 2
    /\ runs[1].op = "drift" /\ IsRealSync(runs[2]) /\ faults = 0
    /\ \E i, j \in 1..Len(manifests) :
          /\ SameIdentity(i, j)
          /\ Cardinality(DriftsOfKey(runs[1], i)) = 1
          /\ runs[2].summary.Results[i].Action = "created"
          /\ runs[2].summary.Results[j].Action = "updated"

\* C15: two manifests of one set that share an identity key are never
\* silently merged: Sync gives each of the two its own result, and DetectDrift
\* either fails or checks each of the two declarations (a declaration that
\* differs from the cluster has a DriftResult of its own).
C15_NoSilentMerge ==
    \A k \in 1..Len(runs) : \A i, j \in 1..Len(manifests) :
        (SameIdentity(i, j) /\ manifests[i] # manifests[j] /\ faults = 0) =>
           /\ IsSyncRun(runs[k]) =>
                 /\ Len(runs[k].summary.Results) = Len(manifests)
                 /\ runs[k].summary.Results[i].Name = manifests[i].Metadata.Name
                 /\ runs[k].summary.Results[j].Name = manifests[j].Metadata.Name
           /\ runs[k].op = "drift" =>
                 \/ runs[k].err # "nil"
                 \/ \A x \in {i, j} :
                       DriftsFor(runs[k].liveBefore, manifests[x], SyncCluster, FALSE) # {}
                       => \E d \in 1..Len(runs[k].drifts) :
                             runs[k].drifts[d].GitValue = manifests[x]

(***************************************************************************)
(* The manifest functions, called on their own: Manifest.GetKey with       *)
(* ResourceKey.String, compareObjects, ManifestReader.ReadFromReader       *)
(***************************************************************************)
\* manifests to take keys of
KeyManifests ==
    {Manifest(apiVersion, kind, namespace, name, NoLabels, NilMap, NilMap) :
        apiVersion \in {<<"v1">>, <<"apps", "v1">>},
        kind \in {"Deployment", "ConfigMap", "Namespace", "StorageClass"},
        namespace \in {"", "default", "prod"},
        name \in {"web", "db"}}

\* m.GetKey().String() of two manifests
CallGetKey(m1, m2) ==
    /\ pcall = "none"
    /\ pcall' = "GetKey"
    /\ pin' = <<m1, m2>>
    /\ pout' = <<KeyString(GetKey(m1)), KeyString(GetKey(m2))>>
    /\ UNCHANGED notCallVars

\* maps to compare: each of replicas, clusterIP, status and template is
\* absent, a scalar, or (status, template) a nested map or a value of another
\* type
Absent == [t |-> "absent"]
FieldChoices ==
    [replicas : {Absent, Scalar(1), Scalar(2)},
     clusterIP : {Absent, Scalar(1), Scalar(2)},
     status : {Absent, Scalar(1), Map([phase |-> Scalar(1)])},
     template : {Absent, Scalar(1), Map([nodeName |-> Scalar(1)]),
                 Map([nodeName |-> Scalar(2)]), Map([k \in {} |-> Absent])}]

ObjectOf(choice) ==
    [k \in {f \in {"replicas", "clusterIP", "status", "template"} : choice[f] # Absent}
        |-> choice[k]]

\* compareObjects("spec", expected, actual)
CallCompareObjects(expected, actual) ==
    /\ pcall = "none"
    /\ pcall' = "compareObjects"
    /\ pin' = <<expected, actual>>
    /\ pout' = compareObjects(<<"spec">>, expected, actual)
    /\ UNCHANGED notCallVars

\* the live objects a declared manifest is compared with
LiveChoices ==
    {[exists |-> TRUE, labels |-> l, spec |-> sp, data |-> d, rv |-> 1,
      managers |-> {CreateManager}] :
        l \in {NoLabels, [app |-> "web"], [app |-> "db", tier |-> "front"]},
        sp \in {NilMap, WebSpec(2),
                Map([replicas |-> Scalar(2), paused |-> Scalar(1),
                     template |-> Map([image |-> Scalar(1), args |-> Scalar(1)])]),
                Map([replicas |-> Scalar(2), template |-> Scalar(1)])},
        d \in {NilMap, Map([key |-> Scalar(1)]), Map([key |-> Scalar(1), other |-> Scalar(2)])}}

\* d.compareManifests(git, cluster)
CallCompareManifests(git, cluster) ==
    /\ pcall = "none"
    /\ pcall' = "compareManifests"
    /\ pin' = <<git, cluster>>
    /\ pout' = compareManifests(git, cluster)
    /\ UNCHANGED notCallVars

\* a decoded document is a map from keys to values; a value is a string, a
\* number (Scalar) or a map
Str(v) == [t |-> "string", v |-> v]
IsStr(x) == x.t = "string"

\* raw[key].(string), or the zero value
StringField(m, key, zero) ==
    IF key \in DOMAIN m /\ IsStr(m[key]) THEN m[key].v ELSE zero

\* raw[key].(map[string]interface{}), or nil
MapField(m, key) ==
    IF key \in DOMAIN m /\ IsMap(m[key]) THEN m[key] ELSE NilMap

\* parseManifest
parseManifest(rawDoc) ==
    LET metadata == MapField(rawDoc, "metadata")
        labels == IF IsMap(metadata) THEN MapField(metadata.m, "labels") ELSE NilMap
    IN Manifest(StringField(rawDoc, "apiVersion", <<>>),
                StringField(rawDoc, "kind", ""),
                IF IsMap(metadata) THEN StringField(metadata.m, "namespace", "") ELSE "",
                IF IsMap(metadata) THEN StringField(metadata.m, "name", "") ELSE "",
                IF IsMap(labels)
                THEN [k \in {l \in DOMAIN labels.m : IsStr(labels.m[l])} |-> labels.m[k].v]
                ELSE NoLabels,
                MapField(rawDoc, "spec"),
                MapField(rawDoc, "data"))

\* the documents of a stream: text the decoder accepts (decoding to a map or
\* to nothing) or rejects
Decoded(rawDoc) == [syntax |-> "ok", raw |-> rawDoc]
EmptyDocument == [syntax |-> "ok", raw |-> NilMap]
UnparseableDocument == [syntax |-> "bad", raw |-> NilMap]

StreamDocuments ==
    { Decoded(Map([apiVersion |-> Str(<<"apps", "v1">>), kind |-> Str("Deployment"),
                   metadata |-> Map([name |-> Str("web"),
                                     labels |-> Map([app |-> Str("web"),
                                                     tier |-> Scalar(1)])]),
                   spec |-> WebSpec(2)])),
      Decoded(Map([apiVersion |-> Str(<<"v1">>), kind |-> Str("ConfigMap"),
                   metadata |-> Map([name |-> Str("web"), namespace |-> Str("prod")]),
                   data |-> Map([key |-> Scalar(1)])])),
      Decoded(Map([apiVersion |-> Str(<<"v1">>),
                   metadata |-> Map([name |-> Str("web")])])),
      Decoded(Map([apiVersion |-> Str(<<"v1">>), kind |-> Scalar(5),
                   metadata |-> Str("web")])),
      EmptyDocument,
      UnparseableDocument }

\* ReadFromReader: [manifests, err]
RECURSIVE ReadFromReader(_, _)
ReadFromReader(stream, acc) ==
    IF stream = <<>> THEN [manifests |-> acc, err |-> "nil"]
    ELSE LET doc == Head(stream) IN
         IF doc.syntax = "bad" THEN [manifests |-> <<>>, err |-> "decode error"]
         ELSE IF ~IsMap(doc.raw) THEN ReadFromReader(Tail(stream), acc)
         ELSE LET manifest == parseManifest(doc.raw.m) IN
              IF manifest.Kind # ""
              THEN ReadFromReader(Tail(stream), Append(acc, manifest))
              ELSE ReadFromReader(Tail(stream), acc)

CallReadFromReader(stream) ==
    /\ pcall = "none"
    /\ pcall' = "ReadFromReader"
    /\ pin' = stream
    /\ pout' = ReadFromReader(stream, <<>>)
    /\ UNCHANGED notCallVars

CallNext ==
    \/ /\ pcall = "none"
       /\ \E m1, m2 \in KeyManifests : CallGetKey(m1, m2)
    \/ /\ pcall = "none"
       /\ \E e, a \in FieldChoices : CallCompareObjects(ObjectOf(e), ObjectOf(a))
    \/ /\ pcall = "none"
       /\ \E git \in ManifestUniverse, cluster \in LiveChoices :
             CallCompareManifests(git, cluster)
    \/ /\ pcall = "none"
       /\ \E stream \in SeqsUpTo(StreamDocuments, MaxDocuments) :
             CallReadFromReader(stream)

CallSpec == Init /\ [][CallNext]_vars

(***************************************************************************)
(* Properties of the manifest functions                                    *)
(***************************************************************************)
SameButNamespace(m1, m2) ==
    /\ m1.APIVersion = m2.APIVersion /\ m1.Kind = m2.Kind
    /\ m1.Metadata.Name = m2.Metadata.Name

\* C16: the identity key leaves the namespace out for cluster-scoped kinds
\* (two manifests of a cluster-scoped kind that differ in the namespace field
\* only have the same key), and for namespaced kinds an empty namespace is
\* the namespace "default" (two manifests that differ only in "" against
\* "default" have the same key).
C16_KeyNormalisesNamespace ==
    pcall = "GetKey" =>
       LET m1 == pin[1]
           m2 == pin[2]
       IN (/\ SameButNamespace(m1, m2)
           /\ isClusterScoped(m1.Kind) \/ GetNamespace(m1) = GetNamespace(m2))
          => pout[1] = pout[2]

\* C18: a declared key with a system-managed name never contributes a
\* difference, whether the live object holds it with another value or not at
\* all, at any depth: no reported difference has such a name on its path.
C18_SystemFieldsNeverDiffer ==
    pcall = "compareObjects" =>
       \A d \in pout : \A n \in 1..Len(d.path) : ~isSystemManagedField(d.path[n])

\* the documents of a stream that parse and have a kind
IsValidDocument(doc) ==
    /\ doc.syntax = "ok" /\ IsMap(doc.raw)
    /\ "kind" \in DOMAIN doc.raw.m /\ IsStr(doc.raw.m["kind"])

RECURSIVE ValidManifests(_)
ValidManifests(stream) ==
    IF stream = <<>> THEN <<>>
    ELSE (IF IsValidDocument(Head(stream)) THEN <<parseManifest(Head(stream).raw.m)>>
          ELSE <<>>) \o ValidManifests(Tail(stream))

\* C20: a document that cannot be parsed or has no kind is skipped: reading
\* a stream returns every valid manifest of the stream, in input order, and no
\* error.
C20_InvalidDocumentSkipped ==
    (pcall = "ReadFromReader" /\ Len(pin) >= 2 /\ ValidManifests(pin) # <<>>) =>
       /\ pout.err = "nil"
       /\ pout.manifests = ValidManifests(pin)

(***************************************************************************)
(* Properties of DetectDrift                                               *)
(***************************************************************************)
UniqueKeys == \A i, j \in 1..Len(manifests) :
                 GetKey(manifests[i]) = GetKey(manifests[j]) => i = j

\* the declared fields that the live object does not hold with the same value
RECURSIVE DiffPaths(_, _, _)
DiffPaths(path, declared, actual) ==
    UNION { IF k \notin DOMAIN actual THEN {Append(path, k)}
            ELSE IF IsMap(declared[k]) /\ IsMap(actual[k])
                 THEN DiffPaths(Append(path, k), declared[k].m, actual[k].m)
                 ELSE IF declared[k] # actual[k] THEN {Append(path, k)} ELSE {}
          : k \in DOMAIN declared }

FieldDiffs(m, obj) ==
    (IF ~IsMap(m.Spec) THEN {}
     ELSE IF IsMap(obj.spec) THEN DiffPaths(<<"spec">>, m.Spec.m, obj.spec.m)
          ELSE {<<"spec">>})
    \cup
    (IF ~IsMap(m.Data) THEN {}
     ELSE IF IsMap(obj.data) THEN DiffPaths(<<"data">>, m.Data.m, obj.data.m)
          ELSE {<<"data">>})
    \cup
    {<<"label", k>> : k \in {l \in DOMAIN m.Metadata.Labels :
                                l \notin DOMAIN obj.labels
                                \/ obj.labels[l] # m.Metadata.Labels[l]}}

\* C17: in a DetectDrift where no fetch fails, each declared manifest (keys
\* unique in the set) gets exactly one `missing` result if its live object is
\* absent, exactly one `modified` result listing every field difference if it
\* is present and differs, and no result if it is present without difference;
\* no other type of result is produced.
C17_OneResultPerDeclaredManifest ==
    \A k \in 1..Len(runs) :
        (runs[k].op = "drift" /\ runs[k].getFaults = 0 /\ UniqueKeys) =>
           /\ \A d \in 1..Len(runs[k].drifts) :
                 runs[k].drifts[d].DriftType \in {"missing", "modified"}
           /\ \A i \in 1..Len(manifests) :
                 LET m == manifests[i]
                     obj == runs[k].liveBefore[DriftLiveKey(m)]
                     res == DriftsOfKey(runs[k], i)
                 IN IF ~obj.exists
                    THEN /\ Cardinality(res) = 1
                         /\ \A d \in res : runs[k].drifts[d].DriftType = "missing"
                    ELSE IF FieldDiffs(m, obj) # {}
                    THEN /\ Cardinality(res) = 1
                         /\ \A d \in res :
                               /\ runs[k].drifts[d].DriftType = "modified"
                               /\ {x.path : x \in runs[k].drifts[d].Differences}
                                     = FieldDiffs(m, obj)
                    ELSE res = {}

C17_Witness ==
    \E k \in 1..Len(runs) :
        /\ runs[k].op = "drift" /\ runs[k].getFaults = 0 /\ UniqueKeys
        /\ Len(manifests) = 2
        /\ \E d \in 1..Len(runs[k].drifts) :
              /\ runs[k].drifts[d].DriftType = "modified"
              /\ Cardinality(runs[k].drifts[d].Differences) = 2
        /\ \E i \in 1..Len(manifests) :
              /\ runs[k].liveBefore[DriftLiveKey(manifests[i])].exists
              /\ DriftsOfKey(runs[k], i) = {}

\* C19: a fetch that fails for another reason than not-found gives, for that
\* manifest, one `missing` result whose only difference is the error text of
\* the failed fetch.
C19_FetchErrorTextReported ==
    \A k \in 1..Len(runs) :
        runs[k].op = "drift" =>
           \A key \in runs[k].faulted :
              \E d \in 1..Len(runs[k].drifts) :
                 /\ runs[k].drifts[d].ResourceKey = key
                 /\ runs[k].drifts[d].DriftType = "missing"
                 /\ \A x \in runs[k].drifts[d].Differences : x.what = GetErrorText


(***************************************************************************)
(* handleSyncFromGit: the summaries handed back                            *)
(***************************************************************************)
SummaryClusters == [i \in 1..Len(summaries) |-> summaries[i].Cluster]

\* the worker never got a syncer: GetConfig or NewSyncer returned an error
NoSyncer(w) == kidx[w] = 0

\* C21: a returned multi-cluster sync holds exactly one SyncSummary per
\* targeted cluster (a cluster appears as often as it was requested, none is
\* dropped), whatever the interleaving of the workers; a cluster whose
\* config lookup or syncer construction failed has a summary with Failed = 1
\* and a single `failed` entry.
C21_OneSummaryPerTargetedCluster ==
    fpc = "returned" =>
        /\ Len(summaries) = Len(ftargets)
        /\ \A c \in ClusterNames :
              Occurrences(SummaryClusters, c) = Occurrences(ftargets, c)
        /\ \A w \in 1..Len(ftargets) :
              \E i \in 1..Len(summaries) :
                 /\ summaries[i] = ksummary[w]
                 /\ summaries[i].Cluster = ftargets[w]
                 /\ NoSyncer(w) =>
                       /\ summaries[i].Failed = 1
                       /\ Len(summaries[i].Results) = 1
                       /\ summaries[i].Results[1].Action = "failed"

\* two clusters were targeted, one could not be reached and the other was
\* synced, and the slower worker was the first target
C21_Witness ==
    /\ fpc = "returned"
    /\ Len(ftargets) = 2
    /\ NoSyncer(1) /\ ~NoSyncer(2)
    /\ Len(summaries) = 2
    /\ summaries[1].Cluster = ftargets[2]
    /\ summaries[1].Created > 0
    /\ summaries[2].Results[1].Message = "Failed to create syncer"


(***************************************************************************)
(* Syncer.Sync, step by step                                               *)
(***************************************************************************)
\* the result Sync has just appended
LastResult(summary) == summary.Results[Len(summary.Results)]

\* Sync is about to handle a manifest that passes the kind filter
AtFilteredIn == spc = "sync" /\ idx <= Len(manifests)
                /\ shouldSync(manifests[idx].Kind, opts)

\* C22: a non-dry-run Sync step on a manifest that passes the filter and whose
\* API calls succeed: when no live object is found, the declared object is
\* created and the result is `created`; when one is found, the declared
\* object is merged into it under the field manager "klaude-deploy" (declared
\* labels win, other live labels stay) and the result is `updated` exactly
\* when the revision after the apply differs from the fetched one, else
\* `unchanged`. No other object is touched.
C22_CreateOrApply ==
    [][ (AtFilteredIn /\ ~cur.dryRun /\ LastResult(cur'.summary).Action # "failed")
        => LET m == manifests[idx]
               key == TargetKey(idx)
               res == LastResult(cur'.summary)
           IN /\ \A k \in LiveKeys \ {key} : live'[k] = live[k]
              /\ live'[key].exists
              /\ IF ~live[key].exists
                 THEN /\ res.Action = "created"
                      /\ live'[key].spec = m.Spec /\ live'[key].data = m.Data
                      /\ live'[key].labels = m.Metadata.Labels
                 ELSE /\ res.Action \in {"updated", "unchanged"}
                      /\ res.Action = "updated" <=> live'[key].rv # live[key].rv
                      /\ live'[key].managers = live[key].managers \cup {ApplyManager}
                      /\ \A l \in DOMAIN m.Metadata.Labels :
                            live'[key].labels[l] = m.Metadata.Labels[l]
                      /\ \A l \in DOMAIN live[key].labels \ DOMAIN m.Metadata.Labels :
                            live'[key].labels[l] = live[key].labels[l]
      ]_vars

\* one real Sync updated a live object and created another, the next one
\* found the first unchanged
C22_Witness ==
    /\ Len(runs) = 2 /\ faults = 0
    /\ IsRealSync(runs[1]) /\ IsRealSync(runs[2])
    /\ runs[1].summary.Updated = 1 /\ runs[1].summary.Created = 1
    /\ runs[2].summary.Unchanged = 1


\* the result describes the manifest
Describes(res, m) ==
    /\ res.Kind = m.Kind
    /\ res.Name = m.Metadata.Name
    /\ res.Namespace = IF res.Action = "skipped" THEN GetNamespace(m)
                       ELSE SyncNamespace(m, opts)

InDeclaredOrder(rs) ==
    \A i \in 1..Len(rs) : Describes(rs[i], manifests[i])

\* C23: within one cluster Sync handles the manifests one after the other in
\* declared order: while it runs, the results so far describe the first
\* manifests of the input, one each; the API calls of a manifest change the
\* cluster only when all earlier manifests have been classified, and only at
\* that manifest's address; the returned Results describe the input entry by
\* entry.
C23_SequentialInDeclaredOrder ==
    /\ [](spc = "sync" => /\ Len(cur.summary.Results) = idx - 1
                          /\ InDeclaredOrder(cur.summary.Results))
    /\ [](\A k \in 1..Len(runs) :
             IsSyncRun(runs[k]) => /\ Len(runs[k].summary.Results) = Len(manifests)
                                   /\ InDeclaredOrder(runs[k].summary.Results))
    /\ [][ (spc = "sync" /\ live' # live)
            => /\ idx <= Len(manifests)
               /\ Len(cur'.summary.Results) = idx
               /\ Describes(LastResult(cur'.summary), manifests[idx])
               /\ \A k \in LiveKeys \ {TargetKey(idx)} : live'[k] = live[k]
          ]_vars

\* Sync is between two different manifests: the first is created, the second
\* not yet fetched
C23_Witness ==
    /\ spc = "sync" /\ ~cur.dryRun
    /\ Len(manifests) = 2 /\ idx = 2
    /\ manifests[1].Kind # manifests[2].Kind
    /\ cur.summary.Results[1].Action = "created"
    /\ live[TargetKey(1)].exists /\ ~live[TargetKey(2)].exists


CountOf(rs, action) == Cardinality({i \in 1..Len(rs) : rs[i].Action = action})

\* C24: the summary of every finished Sync tallies its Results: each counter
\* is the number of results with that action, the five counters add up to
\* the number of results, which is the number of input manifests, and every
\* result carries the name of the cluster that was synced.
C24_CountersTallyResults ==
    \A k \in 1..Len(runs) :
        IsSyncRun(runs[k]) =>
           LET sm == runs[k].summary IN
           /\ sm.Created = CountOf(sm.Results, "created")
           /\ sm.Updated = CountOf(sm.Results, "updated")
           /\ sm.Unchanged = CountOf(sm.Results, "unchanged")
           /\ sm.Failed = CountOf(sm.Results, "failed")
           /\ sm.Skipped = CountOf(sm.Results, "skipped")
           /\ sm.Created + sm.Updated + sm.Unchanged + sm.Failed + sm.Skipped
                 = Len(sm.Results)
           /\ Len(sm.Results) = Len(manifests)
           /\ sm.Cluster = SyncCluster
           /\ \A i \in 1..Len(sm.Results) : sm.Results[i].Cluster = SyncCluster

\* a Sync that failed on one manifest and created the other, then one that
\* created the first and updated the second
C24_Witness ==
    /\ Len(runs) = 2
    /\ IsRealSync(runs[1]) /\ IsRealSync(runs[2])
    /\ runs[1].summary.Failed = 1 /\ runs[1].summary.Created = 1
    /\ runs[2].summary.Updated = 1 /\ runs[2].summary.Created = 1


KindsOf(list) == {list[i] : i \in 1..Len(list)}

\* the kind is filtered out by the request's lists
FilteredOut(kind) ==
    \/ kind \in KindsOf(opts.Exclude)
    \/ opts.Include # <<>> /\ kind \notin KindsOf(opts.Include)

\* C25: a manifest is synced iff its kind is not in Exclude and Include is
\* empty or holds the kind (Exclude wins over Include). A step of Sync on a
\* filtered-out manifest appends a `skipped` result, makes no API call (none
\* can fail) and leaves every live object as it was; a step on any other
\* manifest never yields `skipped`.
C25_KindFilter ==
    [][ (spc = "sync" /\ idx <= Len(manifests))
        => LET res == LastResult(cur'.summary) IN
           IF FilteredOut(manifests[idx].Kind)
           THEN /\ res.Action = "skipped"
                /\ cur'.summary.Skipped = cur.summary.Skipped + 1
                /\ live' = live
                /\ faults' = faults
           ELSE /\ res.Action # "skipped"
                /\ cur'.summary.Skipped = cur.summary.Skipped
      ]_vars

\* a real Sync whose request names Deployment in both lists skipped a
\* Deployment and a ConfigMap and left the cluster alone
C25_Witness ==
    \E k \in 1..Len(runs) :
        /\ IsRealSync(runs[k])
        /\ opts.Include = <<"Deployment">> /\ opts.Exclude = <<"Deployment">>
        /\ runs[k].summary.Skipped = 2
        /\ {manifests[1].Kind, manifests[2].Kind} = {"Deployment", "ConfigMap"}
        /\ runs[k].liveAfter = runs[k].liveBefore


(***************************************************************************)
(* Syncer.syncResource called for the same manifest by several Sync runs   *)
(* against one cluster: the fetch and the write are separate API calls     *)
(***************************************************************************)
\* the Sync runs reach syncResource for the manifest
RaceStart(m, override, store, dry) ==
    /\ rpc = "idle"
    /\ rmanifest' = m
    /\ rnamespace' = SyncNamespace(m, SyncOptions(override, <<>>, <<>>))
    /\ rlive' = store
    /\ rdry' = dry
    /\ rstep' = [r \in Syncers |-> "get"]
    /\ rpc' = "running"
    /\ UNCHANGED <<rexisting, rresult>>
    /\ UNCHANGED notRaceVars

RaceKey == SyncLiveKey(rmanifest, rnamespace)

Outcome(action, err) == [action |-> action, err |-> err]

\* getGVR, then "existing, err = s.dynClient.Resource(gvr)...Get(...)" and the
\* dry-run returns
RGet(r) ==
    /\ rstep[r] = "get"
    /\ IF ~getGVR(rmanifest).ok
       THEN /\ rresult' = [rresult EXCEPT ![r] = Outcome("", "failed to get GVR")]
            /\ rstep' = [rstep EXCEPT ![r] = "done"]
            /\ UNCHANGED rexisting
       ELSE LET existing == ApiGet(rlive, RaceKey) IN
            /\ rexisting' = [rexisting EXCEPT ![r] = existing]
            /\ IF DryRunReturns(rdry[r])
               THEN /\ rresult' = [rresult EXCEPT ![r] =
                          Outcome(IF existing.exists THEN "updated" ELSE "created", "nil")]
                    /\ rstep' = [rstep EXCEPT ![r] = "done"]
               ELSE /\ rstep' = [rstep EXCEPT ![r] =
                          IF existing.exists THEN "patch" ELSE "create"]
                    /\ UNCHANGED rresult
    /\ UNCHANGED <<rpc, rmanifest, rnamespace, rdry, rlive>>
    /\ UNCHANGED notRaceVars

\* Create is rejected by the API server when the object is already there
AlreadyExistsNever(store, key) == FALSE
AlreadyExists(store, key) == store[key].exists

\* "created, err = s.dynClient.Resource(gvr)...Create(ctx, obj, ...)"
RCreate(r) ==
    /\ rstep[r] = "create"
    /\ IF AlreadyExists(rlive, RaceKey)
       THEN /\ rresult' = [rresult EXCEPT ![r] =
                               Outcome("", "failed to create: already exists")]
            /\ UNCHANGED rlive
       ELSE /\ rlive' = ApiCreate(rlive, RaceKey, Obj(rmanifest, rnamespace))
            /\ rresult' = [rresult EXCEPT ![r] = Outcome("created", "nil")]
    /\ rstep' = [rstep EXCEPT ![r] = "done"]
    /\ UNCHANGED <<rpc, rmanifest, rnamespace, rdry, rexisting>>
    /\ UNCHANGED notRaceVars

\* "updated, err = ...Patch(ctx, name, types.ApplyPatchType, data, ...)" and the
\* comparison of the fetched revision with the returned one
RPatch(r) ==
    /\ rstep[r] = "patch"
    /\ LET after == ApiPatch(rlive, RaceKey, Obj(rmanifest, rnamespace)) IN
       /\ rlive' = after
       /\ rresult' = [rresult EXCEPT ![r] =
             Outcome(IF SameRevision(rexisting[r], after[RaceKey])
                     THEN "unchanged" ELSE "updated", "nil")]
    /\ rstep' = [rstep EXCEPT ![r] = "done"]
    /\ UNCHANGED <<rpc, rmanifest, rnamespace, rdry, rexisting>>
    /\ UNCHANGED notRaceVars

RaceNext ==
    \/ /\ rpc = "idle"
       /\ \E m \in ManifestUniverse, override \in {"", "prod"},
             store \in {EmptyCluster, PreloadedCluster},
             dry \in [Syncers -> BOOLEAN] : RaceStart(m, override, store, dry)
    \/ \E r \in Syncers : RGet(r)
    \/ \E r \in Syncers : RCreate(r)
    \/ \E r \in Syncers : RPatch(r)

RaceSpec == Init /\ [][RaceNext]_vars

RealSyncers == {r \in Syncers : ~rdry[r]}
Finished(r) == rstep[r] = "done"

\* C26: of the non-dry-run Sync runs that handle one manifest on one cluster
\* at the same time, at most one classifies it `created`; a run that found
\* no object and did not create it fails with the rejected create, every
\* other one ends `updated` or `unchanged`; when all of them have finished
\* the object exists at the manifest's address.
C26_AtMostOneCreates ==
    (rpc = "running" /\ getGVR(rmanifest).ok) =>
        /\ Cardinality({r \in RealSyncers : rresult[r].action = "created"}) <= 1
        /\ \A r \in RealSyncers :
              Finished(r) =>
                 \/ rresult[r].err = "nil"
                      /\ rresult[r].action \in {"created", "updated", "unchanged"}
                 \/ /\ rresult[r].err = "failed to create: already exists"
                    /\ ~rexisting[r].exists
                    /\ \E q \in RealSyncers \ {r} : rresult[q].action = "created"
        /\ (RealSyncers # {} /\ \A r \in RealSyncers : Finished(r))
              => rlive[RaceKey].exists

\* two real Sync runs both found no object; one created it, the other's
\* create was rejected
C26_Witness ==
    /\ rpc = "running"
    /\ \E a, b \in RealSyncers :
          /\ a # b
          /\ Finished(a) /\ Finished(b)
          /\ ~rexisting[a].exists /\ ~rexisting[b].exists
          /\ rresult[a].action = "created"
          /\ rresult[b].err = "failed to create: already exists"
    /\ rlive[RaceKey].exists


(***************************************************************************)
(* Selector: clusters whose capability query failed                        *)
(***************************************************************************)
\* the bare ClusterCapabilities{Cluster: name} GetClusterCapabilities records
\* for a cluster whose query returned an error
Unreachable(cap) ==
    cap = ClusterCapabilities(cap.Cluster, <<>>, <<>>, <<>>, [k \in {} |-> ""])

\* the requirements impose nothing
NoEffectiveClause(req) ==
    /\ req.GPUType = ""
    /\ req.MinGPU <= 0
    /\ req.MinCPU = <<>> \/ ~ParseQuantity(req.MinCPU).ok
    /\ req.MinMemory = <<>> \/ ~ParseQuantity(req.MinMemory).ok
    /\ \A key \in DOMAIN req.NodeLabels : req.NodeLabels[key] = ""

\* C27: a cluster whose capability query failed is judged on empty
\* capabilities: FindClustersForWorkload returns it iff the requirements
\* impose no effective clause (no GPU type, MinGPU <= 0, MinCPU and
\* MinMemory each empty or unparseable, every required label value empty).
C27_UnreachableOnlyWithoutClauses ==
    (qpc = "returned" /\ qret.err = "nil") =>
        \A i \in 1..Len(qcaps) :
            Unreachable(qcaps[i]) =>
                (Contains(qret.clusters, qcaps[i].Cluster) <=> NoEffectiveClause(qreq))

\* an unreachable cluster was returned for a request with an unparseable
\* MinCPU and a label required to be empty, next to a reachable one that
\* was not
C27_Witness ==
    /\ qpc = "returned" /\ qret.err = "nil"
    /\ qreq.MinCPU = <<"t", "w", "o">>
    /\ qreq.NodeLabels = [region |-> ""]
    /\ \E i, j \in 1..Len(qcaps) :
          /\ Unreachable(qcaps[i]) /\ Contains(qret.clusters, qcaps[i].Cluster)
          /\ ~Unreachable(qcaps[j]) /\ ~Contains(qret.clusters, qcaps[j].Cluster)


(***************************************************************************)
(* Direction of the drift comparison                                       *)
(***************************************************************************)
\* the path names keys of the declared map, level by level
RECURSIVE DeclaredPath(_, _)
DeclaredPath(declared, path) ==
    \/ path = <<>>
    \/ /\ Head(path) \in DOMAIN declared
       /\ \/ Len(path) = 1
          \/ /\ IsMap(declared[Head(path)])
             /\ DeclaredPath(declared[Head(path)].m, Tail(path))

\* every reported difference is at a declared key or label
OnlyDeclaredCompared ==
    /\ pcall = "compareObjects" =>
          \A d \in pout : Head(d.path) = "spec" /\ DeclaredPath(pin[1], Tail(d.path))
    /\ pcall = "compareManifests" =>
          \A d \in pout :
             \/ Head(d.path) = "label" /\ d.path[2] \in DOMAIN pin[1].Metadata.Labels
             \/ /\ Head(d.path) = "spec" /\ IsMap(pin[1].Spec)
                /\ DeclaredPath(pin[1].Spec.m, Tail(d.path))
             \/ /\ Head(d.path) = "data" /\ IsMap(pin[1].Data)
                /\ DeclaredPath(pin[1].Data.m, Tail(d.path))

\* the differences reported at or below the key
DiffsUnder(key) == {d \in pout : Len(d.path) >= 2 /\ d.path[2] = key}

\* a declared map at the key, a value of another type in the live object
MapAgainstOther(key) ==
    /\ key \in DOMAIN pin[1] /\ IsMap(pin[1][key])
    /\ key \in DOMAIN pin[2] /\ ~IsMap(pin[2][key])

\* C28 as stated: drift comparison looks only at declared keys and labels (a
\* live-only key or label never gives a difference, at any depth), and a
\* declared nested map whose live counterpart is not a map gives exactly one
\* difference, a type mismatch.
C28_OneDirectional ==
    /\ OnlyDeclaredCompared
    /\ pcall = "compareObjects" =>
          \A key \in DOMAIN pin[1] :
             MapAgainstOther(key) =>
                DiffsUnder(key) = {Difference(<<"spec", key>>, "type mismatch", NilMap, NilMap)}

\* C28, amended: the same, the type mismatch being reported for a declared
\* nested map under a key that is not system-managed (a system-managed key
\* that the live object holds is skipped before its type is looked at).
C28_OneDirectionalBesidesSystemFields ==
    /\ OnlyDeclaredCompared
    /\ pcall = "compareObjects" =>
          \A key \in DOMAIN pin[1] :
             (MapAgainstOther(key) /\ key \notin SystemManagedFields) =>
                DiffsUnder(key) = {Difference(<<"spec", key>>, "type mismatch", NilMap, NilMap)}

\* the declared template is a map and the live one a number, the live object
\* has replicas which the declared one has not: one difference, the mismatch
C28_Witness ==
    /\ pcall = "compareObjects"
    /\ MapAgainstOther("template")
    /\ "replicas" \in DOMAIN pin[2] /\ "replicas" \notin DOMAIN pin[1]
    /\ pout = {Difference(<<"spec", "template">>, "type mismatch", NilMap, NilMap)}


(***************************************************************************)
(* The executor's locks                                                    *)
(***************************************************************************)
InsideGetClient == {"gcCheck", "gcBuild", "gcStoreClient", "gcStoreConfig"}
InsideAppend == {"appendRead", "appendWrite"}

\* a lock is held only between its Lock and its Unlock
LocksHeldOnlyInside ==
    /\ \A t \in Threads :
          /\ rw = t => wpc[t] \in InsideGetClient
          /\ mu = t => wpc[t] \in InsideAppend
    /\ cpc = "returned" => mu = NoOwner /\ rw = NoOwner

\* C29: under fair scheduling, with operations and handle constructions that
\* come back, every Execute / ExecuteOnSelected call that was started
\* returns (unless an operation's panic ends the process), whatever the
\* contention for the result mutex and the client-cache lock; no goroutine
\* leaves GetClient or the append holding the lock.
C29_FanOutReturns ==
    /\ []LocksHeldOnlyInside
    /\ (cpc \in {"loop", "single"}) ~> (cpc = "returned" \/ crashed)

\* a fan-out that names one cluster twice has returned: both workers went
\* through GetClient for the same handle, which was built once
C29_Witness ==
    /\ cpc = "returned" /\ mode \in {"all", "selected"}
    /\ Len(targets) = 2 /\ targets[1] = targets[2]
    /\ built[targets[1]] = 1
    /\ hgc[1] = "ok" /\ hgc[2] = "ok"
    /\ Len(ret.results) = 2


(***************************************************************************)
(* ClientManager.GetClient and GetConfig called by several goroutines      *)
(***************************************************************************)
\* a goroutine calls m.GetClient(clusterName) or m.GetConfig(clusterName)
CacheCall(c, op, name) ==
    /\ mpc[c] = "idle"
    /\ cmCalls < MaxCalls
    /\ cmCalls' = cmCalls + 1
    /\ mop' = [mop EXCEPT ![c] = op]
    /\ mname' = [mname EXCEPT ![c] = name]
    /\ mpc' = [mpc EXCEPT ![c] = IF op = "GetConfig" THEN "cfRead" ELSE "gcRead"]
    /\ UNCHANGED <<mbuilt, mret, cmClients, cmConfigs, cmMu, cmBuilt>>
    /\ UNCHANGED notCacheVars

Returned(c, value, err) ==
    [op |-> mop[c], name |-> mname[c], value |-> value, err |-> err]

\* GetConfig: "config, exists := m.configs[clusterName]" under RLock
CfRead(c) ==
    /\ mpc[c] = "cfRead"
    /\ cmMu = NoOwner
    /\ IF cmConfigs[mname[c]] # NoConfig
       THEN /\ mret' = [mret EXCEPT ![c] = Returned(c, cmConfigs[mname[c]], "nil")]
            /\ mpc' = [mpc EXCEPT ![c] = "idle"]
       ELSE /\ mpc' = [mpc EXCEPT ![c] = "gcRead"]
            /\ UNCHANGED mret
    /\ UNCHANGED <<mop, mname, mbuilt, cmClients, cmConfigs, cmMu, cmBuilt, cmCalls>>
    /\ UNCHANGED notCacheVars

\* GetClient has the client: it returns to its caller, or to GetConfig, which
\* goes on to read the config
AfterGetClient(c) == IF mop[c] = "GetConfig" THEN "cfFinal" ELSE "idle"

ClientReturned(c, client) ==
    IF mop[c] = "GetConfig" THEN mret[c] ELSE Returned(c, client, "nil")

\* GetClient: "client, exists := m.clients[clusterName]" under RLock
CacheGcRead(c) ==
    /\ mpc[c] = "gcRead"
    /\ cmMu = NoOwner
    /\ IF cmClients[mname[c]] # NoClient
       THEN /\ mret' = [mret EXCEPT ![c] = ClientReturned(c, cmClients[mname[c]])]
            /\ mpc' = [mpc EXCEPT ![c] = AfterGetClient(c)]
       ELSE /\ mpc' = [mpc EXCEPT ![c] = "gcLock"]
            /\ UNCHANGED mret
    /\ UNCHANGED <<mop, mname, mbuilt, cmClients, cmConfigs, cmMu, cmBuilt, cmCalls>>
    /\ UNCHANGED notCacheVars

\* m.mu.Lock(); defer m.mu.Unlock()
CacheGcLock(c) ==
    /\ mpc[c] = "gcLock"
    /\ cmMu = NoOwner
    /\ cmMu' = c
    /\ mpc' = [mpc EXCEPT ![c] = "gcCheck"]
    /\ UNCHANGED <<mop, mname, mbuilt, mret, cmClients, cmConfigs, cmBuilt, cmCalls>>
    /\ UNCHANGED notCacheVars

\* "Double-check after acquiring write lock"
CacheGcCheck(c) ==
    /\ mpc[c] = "gcCheck"
    /\ IF cmClients[mname[c]] # NoClient
       THEN /\ mret' = [mret EXCEPT ![c] = ClientReturned(c, cmClients[mname[c]])]
            /\ cmMu' = NoOwner
            /\ mpc' = [mpc EXCEPT ![c] = AfterGetClient(c)]
       ELSE /\ mpc' = [mpc EXCEPT ![c] = "gcBuild"]
            /\ UNCHANGED <<mret, cmMu>>
    /\ UNCHANGED <<mop, mname, mbuilt, cmClients, cmConfigs, cmBuilt, cmCalls>>
    /\ UNCHANGED notCacheVars

\* getConfigForContext and kubernetes.NewForConfig; an error returns (nil, err)
\* from GetClient, and from GetConfig when it was the caller
CacheGcBuild(c, outcome) ==
    /\ mpc[c] = "gcBuild"
    /\ IF outcome = "ok"
       THEN /\ mbuilt' = [mbuilt EXCEPT ![c] = mname[c] * 10 + cmBuilt[mname[c]] + 1]
            /\ cmBuilt' = [cmBuilt EXCEPT ![mname[c]] = @ + 1]
            /\ mpc' = [mpc EXCEPT ![c] = "gcStoreClient"]
            /\ UNCHANGED <<mret, cmMu>>
       ELSE /\ mret' = [mret EXCEPT ![c] = Returned(c, 0, outcome)]
            /\ cmMu' = NoOwner
            /\ mpc' = [mpc EXCEPT ![c] = "idle"]
            /\ UNCHANGED <<mbuilt, cmBuilt>>
    /\ UNCHANGED <<mop, mname, cmClients, cmConfigs, cmCalls>>
    /\ UNCHANGED notCacheVars

\* m.clients[clusterName] = client
CacheGcStoreClient(c) ==
    /\ mpc[c] = "gcStoreClient"
    /\ cmClients' = [cmClients EXCEPT ![mname[c]] = mbuilt[c]]
    /\ mpc' = [mpc EXCEPT ![c] = "gcStoreConfig"]
    /\ UNCHANGED <<mop, mname, mbuilt, mret, cmConfigs, cmMu, cmBuilt, cmCalls>>
    /\ UNCHANGED notCacheVars

\* what "m.configs[clusterName] = config" stores
StoredNothing(config) == NoConfig
StoredConfig(config) == config

\* m.configs[clusterName] = config; return client, nil (deferred Unlock)
CacheGcStoreConfig(c) ==
    /\ mpc[c] = "gcStoreConfig"
    /\ cmConfigs' = [cmConfigs EXCEPT ![mname[c]] = StoredConfig(mbuilt[c])]
    /\ cmMu' = NoOwner
    /\ mret' = [mret EXCEPT ![c] = ClientReturned(c, mbuilt[c])]
    /\ mpc' = [mpc EXCEPT ![c] = AfterGetClient(c)]
    /\ UNCHANGED <<mop, mname, mbuilt, cmClients, cmBuilt, cmCalls>>
    /\ UNCHANGED notCacheVars

\* GetConfig: "m.mu.RLock(); defer m.mu.RUnlock(); return m.configs[clusterName], nil"
CfFinal(c) ==
    /\ mpc[c] = "cfFinal"
    /\ cmMu = NoOwner
    /\ mret' = [mret EXCEPT ![c] = Returned(c, cmConfigs[mname[c]], "nil")]
    /\ mpc' = [mpc EXCEPT ![c] = "idle"]
    /\ UNCHANGED <<mop, mname, mbuilt, cmClients, cmConfigs, cmMu, cmBuilt, cmCalls>>
    /\ UNCHANGED notCacheVars

CacheNext ==
    \/ \E c \in Callers, op \in {"GetClient", "GetConfig"}, name \in ClusterNames :
          CacheCall(c, op, name)
    \/ \E c \in Callers : CfRead(c)
    \/ \E c \in Callers : CacheGcRead(c)
    \/ \E c \in Callers : CacheGcLock(c)
    \/ \E c \in Callers : CacheGcCheck(c)
    \/ \E c \in Callers, outcome \in BuildOutcomes : CacheGcBuild(c, outcome)
    \/ \E c \in Callers : CacheGcStoreClient(c)
    \/ \E c \in Callers : CacheGcStoreConfig(c)
    \/ \E c \in Callers : CfFinal(c)

CacheSpec == Init /\ [][CacheNext]_vars

CachedClients == {n \in ClusterNames : cmClients[n] # NoClient}
CachedConfigs == {n \in ClusterNames : cmConfigs[n] # NoConfig}

\* C30: whenever the write lock of the cache is free, the clients map and
\* the configs map hold the same names; a name for which no construction
\* succeeded is in neither map; and a GetConfig that returns a nil error
\* returns a config (never nil), however GetClient and GetConfig calls
\* interleave.
C30_ClientsAndConfigsAgree ==
    /\ cmMu = NoOwner => CachedClients = CachedConfigs
    /\ \A n \in ClusterNames :
          cmBuilt[n] = 0 => n \notin CachedClients \cup CachedConfigs
    /\ \A c \in Callers :
          (mret[c].op = "GetConfig" /\ mret[c].err = "nil") => mret[c].value # NoConfig

\* a construction failed for one caller and left the maps empty for that
\* name; another caller's GetConfig then built the handle, and a later call
\* got the cached config
C30_Witness ==
    /\ cmMu = NoOwner
    /\ \E a, b \in Callers :
          /\ a # b
          /\ mret[a].op = "GetConfig" /\ mret[a].err = "nil"
          /\ mret[b].op = "GetClient" /\ mret[b].err = "failed to create client"
          /\ mret[a].name = mret[b].name
          /\ cmBuilt[mret[a].name] = 1
          /\ mret[a].value = cmConfigs[mret[a].name]
    /\ \E n \in ClusterNames : cmBuilt[n] = 0 /\ n \notin CachedClients

====
